---- MODULE Spec2Model ----
(***************************************************************************)
(* Model of the task scheduler of core/execution/parallel_scanner.py:      *)
(* ParallelScanner.execute_parallel running one batch of ScanTasks on a    *)
(* ThreadPoolExecutor of max_workers threads, collecting the futures with  *)
(* as_completed and reporting progress through an optional callback.       *)
(*                                                                         *)
(* A task is identified by its position in the input list `tasks`.         *)
(* Time is not a number here: the moment at which a running executor has   *)
(* used up its task's timeout is the event ExecOverdue. The scheduler      *)
(* never looks at that moment, so Spec leaves the event out and TimedSpec  *)
(* follows it.                                                             *)
(*                                                                         *)
(* The second part models the result cache of core/cache/scan_cache.py:    *)
(* CacheSpec follows the calls of a ScanResultCache on its in-memory or    *)
(* Redis backend as the clock advances, ExecutorSpec the calls of          *)
(* CacheAwareExecutor.execute_with_cache over such a cache, and KeySpec    *)
(* the cache key function alone. The scheduler and the cache do not run    *)
(* together in these specifications: each leaves the other's variables     *)
(* as they are. FaultSpec follows the same calls of the cache with params  *)
(* that may not be serializable on a server that may fail.                 *)
(*                                                                         *)
(* The third part models the resilient executor of                         *)
(* core/execution/error_handler.py: ResSpec follows one call of            *)
(* ResilientExecutor.execute_with_resilience through its attempts, sleeps  *)
(* and alternatives (FairResSpec: when every executor called comes back),  *)
(* and DiagnoseSpec the error classification alone.                        *)
(*                                                                         *)
(* The last part follows the cache and the scheduler in their callers:     *)
(* FacadeSpec the wrapper that create_cached_executor of                   *)
(* api/routes/intelligence_enhanced.py puts around an executor,            *)
(* CleanupSpec the manual sweep cleanup_expired, SharedSpec a Redis server *)
(* that another application writes to while clear_all is called with the   *)
(* pattern of a request, ThreadSpec two threads inside calls of one cache  *)
(* whose dict no lock protects, and SmartSpec one call of                  *)
(* SmartParallelScanner.execute_with_retry or execute_with_dependencies,   *)
(* whose rounds are execute_parallel calls run by the scheduler's actions. *)
(***************************************************************************)
EXTENDS Integers, Sequences, FiniteSets, TLC

\* ------------------------------------------------------------------ bounds
MaxTasks == 2
MaxWorkers == 2

\* --------------------------------------------------------------- constants
None == "None"

\* ParallelScanner.DEFAULT_TIMEOUTS, the kinds the batches are drawn from
DEFAULT_TIMEOUTS ==
    [httpx |-> 30, nmap |-> 120, nuclei |-> 300]

\* ParallelScanner.get_default_timeout
get_default_timeout(tool_name) ==
    IF tool_name \in DOMAIN DEFAULT_TIMEOUTS THEN DEFAULT_TIMEOUTS[tool_name] ELSE 300

\* ParallelScanner.create_task_from_selection (params or {} is not modelled:
\* the scheduler only passes it through to the executor)
create_task_from_selection(tool_name, target, priority) ==
    [tool_name |-> tool_name,
     target    |-> target,
     timeout   |-> get_default_timeout(tool_name),
     priority  |-> priority]

\* The tasks a batch may hold: two kinds with an executor and different
\* priorities, one kind without executor; a batch may hold a task twice
TaskPool ==
    { create_task_from_selection("httpx", "host", 1),
      create_task_from_selection("nmap", "host", 5),
      create_task_from_selection("nuclei", "host", 1) }

\* The tool_executors argument: the kinds that have an executor function
tool_executors == {"httpx", "nmap"}

\* What one call of an executor function can do: return a dict (with its
\* 'success' and 'timed_out' entries), return something that is not a dict
\* (the two entries then mean nothing), or raise an Exception (value: its
\* message)
ExecOutcomes ==
    { [raised |-> FALSE, isdict |-> TRUE,  success |-> TRUE,  timed_out |-> FALSE, value |-> "found"],
      [raised |-> FALSE, isdict |-> TRUE,  success |-> FALSE, timed_out |-> FALSE, value |-> "nothing"],
      [raised |-> FALSE, isdict |-> TRUE,  success |-> FALSE, timed_out |-> TRUE,  value |-> "killed"],
      [raised |-> FALSE, isdict |-> FALSE, success |-> TRUE,  timed_out |-> TRUE,  value |-> "text"],
      [raised |-> TRUE,  isdict |-> FALSE, success |-> FALSE, timed_out |-> FALSE, value |-> "boom"] }

CallbackError == "callback failed"

VARIABLES
    tasks,            \* the tasks argument: a sequence of ScanTask
    max_workers,      \* self.max_workers
    has_callback,     \* progress_callback is not None
    pc,               \* position of the calling thread in execute_parallel
    sorted_tasks,     \* sorted_tasks, as positions in tasks
    cursor,           \* position of the submit loop in sorted_tasks
    results,          \* results: tool_name -> ScanResult
    completed_tasks,  \* completed_tasks
    future_to_task,   \* future_to_task, in insertion order (tasks of the futures)
    work_queue,       \* the pool's queue of work items not yet taken
    num_threads,      \* worker threads the pool has started
    running,          \* tasks whose executor has started and not returned
    invocations,      \* per task, how often its executor was called
    overdue,          \* tasks whose executor ran longer than task.timeout
    outcome,          \* task -> what its executor function did (finished ones)
    future,           \* task -> ScanResult of its future, for the finished futures
    completion,       \* the tasks in the order their futures finished
    finished_first,   \* as_completed: the futures finished before it started
    finished_futures, \* as_completed: waiter.finished_futures, in arrival order
    yielded,          \* the tasks in the order as_completed yielded them
    calls             \* the calls made to progress_callback, in order

vars ==
    << tasks, max_workers, has_callback, pc, sorted_tasks, cursor, results,
       completed_tasks, future_to_task, work_queue, num_threads, running,
       invocations, overdue, outcome, future, completion, finished_first,
       finished_futures, yielded, calls >>

\* The state of a ScanResultCache (core/cache/scan_cache.py), of the Redis
\* server it may talk to, and of the clock both read
VARIABLES
    constructed,      \* ScanResultCache.__init__ has run
    use_redis,        \* self.use_redis (before __init__: the argument)
    redis_client,     \* self.redis_client: None or a client
    redis_reachable,  \* the server behind the client answers
    memory_cache,     \* self.memory_cache: key -> CacheEntry
    redis_db,         \* the server's keys: key -> [value, expires_at]
    redis_commands,   \* the commands the cache has sent to the server
    now,              \* time.time()
    ticks,            \* how often the clock has advanced
    ncalls,           \* how many calls the cache has served
    last_call,        \* the last call: its arguments and what it returned
    written           \* key -> the last set under it that returned True and
                      \* that no invalidate or clear_all has undone since

cache_vars ==
    << constructed, use_redis, redis_client, redis_reachable, memory_cache,
       redis_db, redis_commands, now, ticks, ncalls, last_call, written >>

\* The state of one ResilientExecutor.execute_with_resilience call
\* (core/execution/error_handler.py) and of what it consults
VARIABLES
    resilient,        \* self: max_retries, retry_delay, enable_fallback
    res_call,         \* the arguments: tool_name, target, params and the
                      \* tools that have an entry in tool_executors
    tool_checker,     \* the tools ToolChecker.is_tool_available reports
    res_pc,           \* where the call is
    retry_count,      \* the local retry_count
    last_error,       \* the local last_error: None or an ErrorContext
    alt_cursor,       \* _try_fallback: position in `alternatives`
    res_trace,        \* what the call has done: executor calls and sleeps
    res_ret           \* what the call returned, once it has

res_vars ==
    << resilient, res_call, tool_checker, res_pc, retry_count, last_error,
       alt_cursor, res_trace, res_ret >>

\* The threads that call one cache at the same time, and the state of one
\* call of a SmartParallelScanner around the batches it runs
VARIABLES
    threads,          \* thread -> where it is in its call and its locals
    smart             \* the call's arguments, locals and rounds so far

ext_vars == << threads, smart >>

all_vars == << vars, cache_vars, res_vars, ext_vars >>

\* ----------------------------------------------------------------- helpers
Range(s) == { s[i] : i \in 1..Len(s) }

SeqsUpTo(S, n) == UNION { [1..m -> S] : m \in 0..n }

Positions == 1..Len(tasks)

KindOf(t) == tasks[t].tool_name

\* dict assignment d[k] = v
Put(d, k, v) == [x \in DOMAIN d \cup {k} |-> IF x = k THEN v ELSE d[x]]

EmptyDict == [x \in {} |-> None]

\* variant of ResultKey: results keyed by the task's target
ResultKey_Target(task) == task.target

\* results[task.tool_name] = ...: the key of a task's entry in results

ResultKey(task) == task.tool_name

\* variant of Store: results.setdefault(key, value), the first entry stays
Put_KeepFirst(d, k, v) ==
    [x \in DOMAIN d \cup {k} |-> IF x \in DOMAIN d THEN d[x] ELSE v]

\* variant of HasExecutor: the lookup result is not tested
HasExecutor_Always(tool_name) == TRUE

\* `if not executor_func` of tool_executors.get(task.tool_name), negated

HasExecutor(tool_name) == tool_name \in tool_executors

\* results[key] = value
Store(d, k, v) == Put(d, k, v)

\* ScanResult (execution_time, a wall-clock measurement, is left out)
ScanResult(task, success, result, error, timed_out) ==
    [tool_name |-> task.tool_name,
     target    |-> task.target,
     success   |-> success,
     result    |-> result,
     error     |-> error,
     timed_out |-> timed_out]

\* sorted(tasks, key=lambda t: t.priority, reverse=True): a stable sort,
\* which reverse=True keeps stable. Insert p behind every element whose
\* priority is not smaller.
RECURSIVE InsertByPriority(_, _, _)
InsertByPriority(ts, s, p) ==
    IF s = << >> THEN << p >>
    ELSE IF ts[Head(s)].priority >= ts[p].priority
         THEN << Head(s) >> \o InsertByPriority(ts, Tail(s), p)
         ELSE << p >> \o s

RECURSIVE SortPrefix(_, _)
SortPrefix(ts, n) ==
    IF n = 0 THEN << >> ELSE InsertByPriority(ts, SortPrefix(ts, n - 1), n)

\* variant of SortByPriority: sorted(tasks, key=...)[::-1], which orders by
\* descending priority and reverses the tasks of equal priority
RECURSIVE ReverseSeq(_)
ReverseSeq(s) ==
    IF s = << >> THEN << >> ELSE ReverseSeq(Tail(s)) \o << Head(s) >>

RECURSIVE InsertAscending(_, _, _)
InsertAscending(ts, s, p) ==
    IF s = << >> THEN << p >>
    ELSE IF ts[Head(s)].priority <= ts[p].priority
         THEN << Head(s) >> \o InsertAscending(ts, Tail(s), p)
         ELSE << p >> \o s

RECURSIVE SortAscending(_, _)
SortAscending(ts, n) ==
    IF n = 0 THEN << >> ELSE InsertAscending(ts, SortAscending(ts, n - 1), n)

SortByPriority_Reversed(ts) == ReverseSeq(SortAscending(ts, Len(ts)))

SortByPriority(ts) == SortPrefix(ts, Len(ts))

\* ParallelScanner.execute_single_task: the ScanResult for what the executor did
execute_single_task(task, o) ==
    IF o.raised
    THEN ScanResult(task, FALSE, "{}", o.value, FALSE)
    ELSE ScanResult(task,
                    IF o.isdict THEN o.success ELSE FALSE,
                    o.value,
                    None,
                    IF o.isdict THEN o.timed_out ELSE FALSE)

\* the ScanResult of the `if not executor_func` branch
NoExecutorResult(task) ==
    ScanResult(task, FALSE, "{}", "No executor found for " \o task.tool_name, FALSE)

\* the ScanResult of the `except FutureTimeoutError` branch
TimeoutResult(task) ==
    ScanResult(task, FALSE, "{}", "Timeout after " \o ToString(task.timeout) \o "s", TRUE)

\* the ScanResult of the `except Exception` branch
ExceptionResult(task, message) ==
    ScanResult(task, FALSE, "{}", message, FALSE)

\* A batch of the scanner runs without a cache: no ScanResultCache is built
NoCache ==
    /\ constructed = FALSE
    /\ use_redis = FALSE
    /\ redis_client = None
    /\ redis_reachable = FALSE
    /\ memory_cache = EmptyDict
    /\ redis_db = EmptyDict
    /\ redis_commands = {}
    /\ now = 0
    /\ ticks = 0
    /\ ncalls = 0
    /\ last_call = [op |-> None]
    /\ written = EmptyDict

\* No execute_with_resilience call is made
NoResilience ==
    /\ resilient = [max_retries |-> 0, retry_delay |-> 0, enable_fallback |-> FALSE]
    /\ res_call = [tool_name |-> None]
    /\ tool_checker = {}
    /\ res_pc = "idle"
    /\ retry_count = 0
    /\ last_error = {}
    /\ alt_cursor = 0
    /\ res_trace = << >>
    /\ res_ret = {}

\* No thread is inside a call of the cache
NoThreads == threads = << >>

\* No SmartParallelScanner call is made
NoSmart == smart = [op |-> None]

\* ------------------------------------------------------------------- Init
Init ==
    /\ tasks \in SeqsUpTo(TaskPool, MaxTasks)
    /\ max_workers \in 1..MaxWorkers
    /\ has_callback \in BOOLEAN
    /\ pc = "start"
    /\ sorted_tasks = << >>
    /\ cursor = 1
    /\ results = EmptyDict
    /\ completed_tasks = 0
    /\ future_to_task = << >>
    /\ work_queue = << >>
    /\ num_threads = 0
    /\ running = {}
    /\ invocations = [t \in 1..Len(tasks) |-> 0]
    /\ overdue = {}
    /\ outcome = EmptyDict
    /\ future = EmptyDict
    /\ completion = << >>
    /\ finished_first = {}
    /\ finished_futures = << >>
    /\ yielded = << >>
    /\ calls = << >>
    /\ NoCache
    /\ NoResilience
    /\ NoThreads
    /\ NoSmart

\* ------------------------------------------------------- the calling thread
\* `if not tasks: return {}`
ReturnEmpty ==
    /\ pc = "start"
    /\ tasks = << >>
    /\ pc' = "done"
    /\ UNCHANGED << tasks, max_workers, has_callback, sorted_tasks, cursor,
                    results, completed_tasks, future_to_task, work_queue,
                    num_threads, running, invocations, overdue, outcome, future,
                    completion, finished_first, finished_futures, yielded,
                    calls >>

\* sorted_tasks = sorted(...); results = {}; completed_tasks = 0
SortTasks ==
    /\ pc = "start"
    /\ tasks # << >>
    /\ sorted_tasks' = SortByPriority(tasks)
    /\ pc' = "submit"
    /\ UNCHANGED << tasks, max_workers, has_callback, cursor, results,
                    completed_tasks, future_to_task, work_queue, num_threads,
                    running, invocations, overdue, outcome, future, completion,
                    finished_first, finished_futures, yielded, calls >>

\* One turn of `for task in sorted_tasks` for a kind without executor
SubmitNoExecutor ==
    /\ pc = "submit"
    /\ cursor <= Len(sorted_tasks)
    /\ LET t == sorted_tasks[cursor] IN
        /\ ~HasExecutor(KindOf(t))
        /\ results' = Store(results, ResultKey(tasks[t]), NoExecutorResult(tasks[t]))
    /\ cursor' = cursor + 1
    /\ UNCHANGED << tasks, max_workers, has_callback, pc, sorted_tasks,
                    completed_tasks, future_to_task, work_queue, num_threads,
                    running, invocations, overdue, outcome, future, completion,
                    finished_first, finished_futures, yielded, calls >>

\* variant of AdjustThreadCount: one thread per submitted work item
AdjustThreadCount_Unbounded(n, width) == n + 1

\* ThreadPoolExecutor.submit starts one more worker thread while the pool
\* has fewer than max_workers of them (a pool that reuses an idle thread
\* instead starts fewer threads, never more)

AdjustThreadCount(n, width) == IF n < width THEN n + 1 ELSE n

\* One turn of `for task in sorted_tasks` that ends in executor.submit
SubmitTask ==
    /\ pc = "submit"
    /\ cursor <= Len(sorted_tasks)
    /\ LET t == sorted_tasks[cursor] IN
        /\ HasExecutor(KindOf(t))
        /\ work_queue' = Append(work_queue, t)
        /\ future_to_task' = Append(future_to_task, t)
    /\ num_threads' = AdjustThreadCount(num_threads, max_workers)
    /\ cursor' = cursor + 1
    /\ UNCHANGED << tasks, max_workers, has_callback, pc, sorted_tasks,
                    results, completed_tasks, running, invocations, overdue,
                    outcome, future, completion, finished_first, finished_futures,
                    yielded, calls >>

\* as_completed(future_to_task, timeout=None) starts: the futures that are
\* finished by now form a set, later ones arrive through the waiter
StartCollect ==
    /\ pc = "submit"
    /\ cursor > Len(sorted_tasks)
    /\ finished_first' = DOMAIN future
    /\ pc' = "collect"
    /\ UNCHANGED << tasks, max_workers, has_callback, sorted_tasks, cursor,
                    results, completed_tasks, future_to_task, work_queue,
                    num_threads, running, invocations, overdue, outcome, future,
                    completion, finished_futures, yielded, calls >>

\* variant of NextYield: the waiter's list is read from its newest end
NextYield_Lifo(first, arrived) ==
    IF first # {} THEN first
    ELSE IF arrived # << >> THEN { arrived[Len(arrived)] } ELSE {}

\* The futures as_completed may yield next: any of the futures that were
\* finished when it started (it keeps them in a set, whose iteration order
\* is not the completion order), and when those are used up the oldest
\* future of the waiter's list
NextYield(first, arrived) ==
    IF first # {} THEN first
    ELSE IF arrived # << >> THEN { Head(arrived) } ELSE {}

\* One turn of `for future in as_completed(...)`; cb_raises: the progress
\* callback raises an Exception in this call
Collect(t, cb_raises) ==
    /\ pc = "collect"
    /\ t \in NextYield(finished_first \ Range(yielded), finished_futures)
    /\ finished_futures' =
          IF t \in finished_first THEN finished_futures
          ELSE SelectSeq(finished_futures, LAMBDA u : u # t)
    /\ yielded' = Append(yielded, t)
    /\ IF t \in DOMAIN future
       THEN \* future.result(timeout=task.timeout) returns
            LET stored == Store(results, ResultKey(tasks[t]), future[t])
                count  == completed_tasks + 1
            IN  IF has_callback
                THEN /\ calls' = Append(calls,
                                    [completed |-> count,
                                     total     |-> Len(sorted_tasks),
                                     tool      |-> KindOf(t),
                                     task      |-> t,
                                     raised    |-> cb_raises])
                     /\ IF cb_raises
                        THEN \* the `except Exception` branch
                             /\ results' = Store(stored, ResultKey(tasks[t]),
                                                 ExceptionResult(tasks[t], CallbackError))
                             /\ completed_tasks' = count + 1
                        ELSE /\ results' = stored
                             /\ completed_tasks' = count
                ELSE /\ results' = stored
                     /\ completed_tasks' = count
                     /\ calls' = calls
       ELSE \* the `except FutureTimeoutError` branch
            /\ results' = Store(results, ResultKey(tasks[t]), TimeoutResult(tasks[t]))
            /\ completed_tasks' = completed_tasks + 1
            /\ calls' = calls
    /\ UNCHANGED << tasks, max_workers, has_callback, pc, sorted_tasks,
                    cursor, future_to_task, work_queue, num_threads, running,
                    invocations, overdue, outcome, future, completion,
                    finished_first >>

\* as_completed is exhausted, the `with` block shuts the pool down
\* (shutdown(wait=True) joins the workers) and results is returned
Return ==
    /\ pc = "collect"
    /\ Len(yielded) = Len(future_to_task)
    /\ work_queue = << >>
    /\ running = {}
    /\ pc' = "done"
    /\ UNCHANGED << tasks, max_workers, has_callback, sorted_tasks, cursor,
                    results, completed_tasks, future_to_task, work_queue,
                    num_threads, running, invocations, overdue, outcome, future,
                    completion, finished_first, finished_futures, yielded,
                    calls >>

\* ------------------------------------------------------ the worker threads
\* A worker thread that is not running a work item takes the oldest one and
\* calls execute_single_task, which calls the executor function
WorkerTake ==
    /\ work_queue # << >>
    /\ Cardinality(running) < num_threads
    /\ LET t == Head(work_queue) IN
        /\ running' = running \cup {t}
        /\ invocations' = [invocations EXCEPT ![t] = @ + 1]
    /\ work_queue' = Tail(work_queue)
    /\ UNCHANGED << tasks, max_workers, has_callback, pc, sorted_tasks,
                    cursor, results, completed_tasks, future_to_task,
                    num_threads, overdue, outcome, future, completion, finished_first,
                    finished_futures, yielded, calls >>

\* The executor function of task t returns or raises; execute_single_task
\* turns that into a ScanResult, which finishes the future
ExecReturn(t, o) ==
    /\ t \in running
    /\ running' = running \ {t}
    /\ outcome' = Put(outcome, t, o)
    /\ future' = Put(future, t, execute_single_task(tasks[t], o))
    /\ completion' = Append(completion, t)
    /\ finished_futures' =
          IF pc = "collect" THEN Append(finished_futures, t) ELSE finished_futures
    /\ UNCHANGED << tasks, max_workers, has_callback, pc, sorted_tasks,
                    cursor, results, completed_tasks, future_to_task,
                    work_queue, num_threads, invocations, overdue,
                    finished_first, yielded, calls >>

\* The executor function of task t has been running for task.timeout
\* seconds and has not returned
ExecOverdue(t) ==
    /\ t \in running
    /\ t \notin overdue
    /\ overdue' = overdue \cup {t}
    /\ UNCHANGED << tasks, max_workers, has_callback, pc, sorted_tasks,
                    cursor, results, completed_tasks, future_to_task,
                    work_queue, num_threads, running, invocations, outcome, future,
                    completion, finished_first, finished_futures, yielded,
                    calls >>

CallbackOutcomes == IF has_callback THEN BOOLEAN ELSE {FALSE}

Collecting == \E t \in Positions : \E r \in CallbackOutcomes : Collect(t, r)

Returning == \E t \in Positions : \E o \in ExecOutcomes : ExecReturn(t, o)

Expiring == \E t \in Positions : ExecOverdue(t)

Next ==
    \/ ReturnEmpty /\ UNCHANGED << cache_vars, res_vars, ext_vars >>
    \/ SortTasks /\ UNCHANGED << cache_vars, res_vars, ext_vars >>
    \/ SubmitNoExecutor /\ UNCHANGED << cache_vars, res_vars, ext_vars >>
    \/ SubmitTask /\ UNCHANGED << cache_vars, res_vars, ext_vars >>
    \/ StartCollect /\ UNCHANGED << cache_vars, res_vars, ext_vars >>
    \/ Collecting /\ UNCHANGED << cache_vars, res_vars, ext_vars >>
    \/ Return /\ UNCHANGED << cache_vars, res_vars, ext_vars >>
    \/ WorkerTake /\ UNCHANGED << cache_vars, res_vars, ext_vars >>
    \/ Returning /\ UNCHANGED << cache_vars, res_vars, ext_vars >>

Spec == Init /\ [][Next]_all_vars

\* The same scheduler, observed together with the timeouts of its tasks
TimedNext ==
    \/ ReturnEmpty /\ UNCHANGED << cache_vars, res_vars, ext_vars >>
    \/ SortTasks /\ UNCHANGED << cache_vars, res_vars, ext_vars >>
    \/ SubmitNoExecutor /\ UNCHANGED << cache_vars, res_vars, ext_vars >>
    \/ SubmitTask /\ UNCHANGED << cache_vars, res_vars, ext_vars >>
    \/ StartCollect /\ UNCHANGED << cache_vars, res_vars, ext_vars >>
    \/ Collecting /\ UNCHANGED << cache_vars, res_vars, ext_vars >>
    \/ Return /\ UNCHANGED << cache_vars, res_vars, ext_vars >>
    \/ WorkerTake /\ UNCHANGED << cache_vars, res_vars, ext_vars >>
    \/ Returning /\ UNCHANGED << cache_vars, res_vars, ext_vars >>
    \/ Expiring /\ UNCHANGED << cache_vars, res_vars, ext_vars >>

\* The calling thread and the worker threads are scheduled fairly and time
\* passes; nothing makes an executor function return
TimedSpec ==
    /\ Init
    /\ [][TimedNext]_all_vars
    /\ WF_vars(ReturnEmpty)
    /\ WF_vars(SortTasks)
    /\ WF_vars(SubmitNoExecutor)
    /\ WF_vars(SubmitTask)
    /\ WF_vars(StartCollect)
    /\ WF_vars(Collecting)
    /\ WF_vars(Return)
    /\ WF_vars(WorkerTake)
    /\ WF_vars(Expiring)

\* ---------------------------------------------------- notions of the claims
\* the tasks that went to the worker pool
Dispatched == Range(future_to_task)

\* the submit loop has dealt with task t
Handled(t) == \E i \in 1..(cursor - 1) : sorted_tasks[i] = t

\* no two tasks of the batch share a probe kind
DistinctKinds ==
    \A t, u \in Positions : t # u => KindOf(t) # KindOf(u)

BatchKinds == { KindOf(t) : t \in Positions }

\* position of x in the sequence s (0: not in it)
IndexIn(s, x) ==
    IF x \in Range(s) THEN CHOOSE i \in 1..Len(s) : s[i] = x ELSE 0

\* C1: in every reachable state the number of executor invocations that have
\* started and not yet returned is at most the worker width max_workers.
C1_BoundedConcurrency ==
    Cardinality(running) <= max_workers

\* the pool is full while a submitted task waits in its queue
C1_Witness ==
    /\ Cardinality(running) = max_workers
    /\ work_queue # << >>

\* C2: when execute_parallel returns for a non-empty batch of pairwise
\* distinct probe kinds, the map holds exactly one ScanResult per submitted
\* task (its own kind and target) and no other key.
C2_OneResultPerTask ==
    (pc = "done" /\ tasks # << >> /\ DistinctKinds) =>
        /\ DOMAIN results = BatchKinds
        /\ Cardinality(DOMAIN results) = Len(tasks)
        /\ \A t \in Positions :
              /\ results[KindOf(t)].tool_name = KindOf(t)
              /\ results[KindOf(t)].target = tasks[t].target

\* a returned batch of MaxTasks distinct kinds, one without executor, one
\* whose executor raised
C2_Witness ==
    /\ pc = "done"
    /\ DistinctKinds
    /\ Len(tasks) = 2
    /\ \E t \in Positions : KindOf(t) \notin tool_executors
    /\ \E t \in DOMAIN outcome : outcome[t].raised

\* C5: tasks are submitted to the pool in descending priority order, tasks
\* of equal priority in the order they had in the input batch.
C5_SubmitOrder ==
    \A i, j \in 1..Len(future_to_task) :
        i < j =>
            LET a == future_to_task[i]
                b == future_to_task[j]
            IN  \/ tasks[a].priority > tasks[b].priority
                \/ tasks[a].priority = tasks[b].priority /\ a < b

\* two tasks were submitted, the later one of the input first
C5_Witness ==
    /\ Len(future_to_task) = 2
    /\ future_to_task[1] > future_to_task[2]

\* C8: a task whose kind has no executor gets the failed ScanResult
\* 'No executor found for <kind>', never reaches the worker pool, and the
\* tasks that have an executor are all dispatched.
C8_NoExecutor ==
    /\ \A t \in Positions :
          KindOf(t) \notin tool_executors =>
              /\ t \notin Dispatched
              /\ t \notin Range(work_queue)
              /\ invocations[t] = 0
              /\ Handled(t) =>
                    /\ KindOf(t) \in DOMAIN results
                    /\ results[KindOf(t)].success = FALSE
                    /\ results[KindOf(t)].timed_out = FALSE
                    /\ results[KindOf(t)].error = "No executor found for " \o KindOf(t)
    /\ pc \in {"collect", "done"} =>
          \A t \in Positions : KindOf(t) \in tool_executors => t \in Dispatched

\* a task without executor was handled first, a task behind it was
\* dispatched and ran
C8_Witness ==
    /\ pc = "done"
    /\ Len(sorted_tasks) = 2
    /\ KindOf(sorted_tasks[1]) \notin tool_executors
    /\ sorted_tasks[2] \in DOMAIN future

\* C3: a dispatched task whose executor has not returned within the task's
\* timeout ends with timed_out = true and success = false in the returned map.
C3_OverdueIsTimedOut ==
    (pc = "done" /\ DistinctKinds) =>
        \A t \in overdue :
            /\ results[KindOf(t)].timed_out = TRUE
            /\ results[KindOf(t)].success = FALSE

\* every task of the batch has a result or has used up its timeout
AllSettled ==
    /\ pc \in {"submit", "collect"}
    /\ cursor > Len(sorted_tasks)
    /\ \A t \in Dispatched : t \in DOMAIN future \/ t \in overdue

\* C4: once each task of the batch has produced a result or exceeded its
\* timeout, execute_parallel returns; it does not wait for an executor that
\* is still running past its task's timeout.
C4_ReturnsOnceSettled ==
    AllSettled ~> (pc = "done")

\* the success flag execute_single_task derives from what the executor did
OwnSuccess(t) ==
    /\ ~outcome[t].raised
    /\ outcome[t].isdict
    /\ outcome[t].success

\* C6: with worker width 1 executor invocations never overlap, the executor
\* of a higher-priority task has returned before that of a lower-priority
\* task starts, and the final map holds for each task a key whose success
\* flag is the one of the task's own executor.
C6_WidthOneSequential ==
    max_workers = 1 =>
        /\ Cardinality(running) <= 1
        /\ \A t \in running : \A u \in Dispatched :
              tasks[u].priority > tasks[t].priority => u \in DOMAIN future
        /\ (pc = "done" /\ DistinctKinds) =>
              \A t \in Positions :
                  /\ KindOf(t) \in DOMAIN results
                  /\ t \in Dispatched =>
                        results[KindOf(t)].success = OwnSuccess(t)

\* C7: when a task's executor raises, its ScanResult has success = false and
\* the exception message as error, and every other task of the batch is
\* executed once and keeps the result of its own executor.
C7_RaiseIsIsolated ==
    (pc = "done" /\ DistinctKinds) =>
        \A t \in DOMAIN outcome :
            outcome[t].raised =>
                /\ results[KindOf(t)].success = FALSE
                /\ results[KindOf(t)].error = outcome[t].value
                /\ \A u \in Positions \ {t} :
                      IF u \in Dispatched
                      THEN /\ invocations[u] = 1
                           /\ results[KindOf(u)] =
                                 execute_single_task(tasks[u], outcome[u])
                      ELSE results[KindOf(u)] = NoExecutorResult(tasks[u])

\* the progress callback is called once for every task as_completed yields,
\* in the order of the yields, with the task's kind
OncePerCollectedTask ==
    /\ \A i, j \in 1..Len(yielded) : i < j => yielded[i] # yielded[j]
    /\ Range(yielded) \subseteq Dispatched
    /\ pc = "done" => Range(yielded) = Dispatched
    /\ has_callback =>
          /\ Len(calls) = Len(yielded)
          /\ \A i \in 1..Len(calls) :
                /\ calls[i].task = yielded[i]
                /\ calls[i].tool = KindOf(yielded[i])
    /\ ~has_callback => calls = << >>

\* C9 as stated: the callback is invoked exactly once for each dispatched
\* task that resolves, and the calls occur in the order in which the tasks
\* complete.
C9_CallsInCompletionOrder ==
    /\ OncePerCollectedTask
    /\ \A i, j \in 1..Len(calls) :
          i < j => IndexIn(completion, calls[i].task)
                     < IndexIn(completion, calls[j].task)

\* C9 as amended: the callback is invoked exactly once for each dispatched
\* task that resolves; the tasks that were complete before the collecting
\* loop started are reported first, in no particular order, the tasks that
\* complete after it started are reported after them in completion order.
C9_CallsInYieldOrder ==
    /\ OncePerCollectedTask
    /\ \A i, j \in 1..Len(calls) :
          i < j =>
              LET a == calls[i].task
                  b == calls[j].task
              IN  /\ b \in finished_first => a \in finished_first
                  /\ (a \notin finished_first /\ b \notin finished_first) =>
                        IndexIn(completion, a) < IndexIn(completion, b)

\* two tasks completed while the loop was collecting and were reported in
\* completion order, which is not the order of submission; one of the
\* calls raised
C9_Witness ==
    /\ pc = "done"
    /\ Len(calls) = 2
    /\ finished_first = {}
    /\ calls[1].task = future_to_task[2]
    /\ calls[1].task = completion[1]
    /\ calls[2].raised

\* the entry the collecting loop wrote last for kind k
LastWritten(k) ==
    LET last == CHOOSE i \in 1..Len(yielded) :
                    /\ KindOf(yielded[i]) = k
                    /\ \A j \in 1..Len(yielded) : KindOf(yielded[j]) = k => j <= i
    IN  IF has_callback /\ calls[last].raised
        THEN ExceptionResult(tasks[yielded[last]], CallbackError)
        ELSE execute_single_task(tasks[yielded[last]], outcome[yielded[last]])

\* C10: when tasks share a probe kind the executor is still invoked once for
\* each of them, and the returned map holds one entry per distinct kind, for
\* a shared kind the result written last.
C10_SharedKindCollides ==
    /\ \A t \in Positions : invocations[t] <= 1
    /\ pc = "done" =>
          /\ \A t \in Dispatched : invocations[t] = 1
          /\ Cardinality(DOMAIN results) = Cardinality(BatchKinds)
          /\ \A k \in BatchKinds \cap tool_executors : results[k] = LastWritten(k)

\* two tasks of one kind ran with different outcomes; the map holds the
\* result of the one collected last
C10_Witness ==
    /\ pc = "done"
    /\ Len(tasks) = 2
    /\ KindOf(1) = KindOf(2)
    /\ Dispatched = {1, 2}
    /\ outcome[yielded[1]].success /\ ~outcome[yielded[1]].raised
    /\ outcome[yielded[2]].raised
    /\ Cardinality(DOMAIN results) = 1
    /\ results[KindOf(1)].error = outcome[yielded[2]].value

\* ======================================================================
\* The result cache of core/cache/scan_cache.py: ScanResultCache with its
\* Redis and in-memory backends, and CacheAwareExecutor.execute_with_cache.
\* A string that the code takes apart (a cache key, a key pattern) is a
\* sequence of pieces; an Optional value is a set of at most one element.
\* ======================================================================

\* ------------------------------------------------------------------ bounds
MaxCalls == 3
MaxTicks == 1

\* --------------------------------------------------------------- constants
\* ScanResultCache.DEFAULT_TTL
DEFAULT_TTL ==
    [quick_scan |-> 3600, normal_scan |-> 7200, deep_scan |-> 14400,
     vulnerability_scan |-> 21600, default |-> 3600]

\* ScanResultCache.TOOL_TTL
TOOL_TTL ==
    [httpx |-> 1800, nmap |-> 7200, nuclei |-> 21600, sqlmap |-> 14400,
     subfinder |-> 86400, amass |-> 86400, nikto |-> 14400]

\* ------------------------------------------------------------------ inputs
CacheTargets == {"host"}

\* scan_type arguments: a key of DEFAULT_TTL, and the objective the route
\* /smart-scan-enhanced passes, which is none
ScanTypes == {"deep_scan", "comprehensive"}

\* ttl arguments: None or a number of seconds
TtlArgs == { {}, {900} }

\* What the clock may advance by between two calls: enough for an entry kept
\* for 900 s to be past its time and for one kept for 1800 s to reach it
ClockSteps == {1800}

\* params arguments: None, or a dict as the sequence of its items in
\* insertion order
NoParams == [given |-> FALSE, items |-> << >>]

Dict(items) == [given |-> TRUE, items |-> items]

\* The params the key function is tried on: dicts that hold the same items
\* in different orders, and dicts that hold different items
ParamMaps ==
    { NoParams,
      Dict(<< >>),
      Dict(<< <<"ports", "80">> >>),
      Dict(<< <<"rate", "10">> >>),
      Dict(<< <<"ports", "80">>, <<"rate", "10">> >>),
      Dict(<< <<"rate", "10">>, <<"ports", "80">> >>),
      Dict(<< <<"ports", "443">>, <<"rate", "10">> >>),
      Dict(<< <<"rate", "10">>, <<"ports", "443">> >>) }

\* The kinds the calls name: one with a TTL of its own, one without
CacheTools == {"httpx", "gobuster"}

\* The order of the parameter names as strings
KeyOrder == << "ports", "rate" >>

KeyRank(k) == CHOOSE i \in 1..Len(KeyOrder) : KeyOrder[i] = k

\* -------------------------------------------------------- the cache key
\* `params or {}`: None and the empty dict both give the empty dict
ParamsOrEmpty(params) ==
    IF (~params.given) \/ params.items = << >> THEN << >> ELSE params.items

RECURSIVE InsertItem(_, _)
InsertItem(item, sorted) ==
    IF sorted = << >> THEN << item >>
    ELSE IF KeyRank(item[1]) < KeyRank(Head(sorted)[1])
         THEN << item >> \o sorted
         ELSE << Head(sorted) >> \o InsertItem(item, Tail(sorted))

RECURSIVE SortKeys(_)
SortKeys(items) ==
    IF items = << >> THEN << >>
    ELSE InsertItem(Head(items), SortKeys(Tail(items)))

RECURSIVE JoinItems(_)
JoinItems(items) ==
    IF items = << >> THEN ""
    ELSE "\"" \o Head(items)[1] \o "\": \"" \o Head(items)[2] \o "\""
         \o (IF Tail(items) = << >> THEN "" ELSE ", " \o JoinItems(Tail(items)))

\* json.dumps(params): the items in the dict's own order
JsonDumpsUnsorted(items) == "{" \o JoinItems(items) \o "}"

\* json.dumps(params, sort_keys=True)
JsonDumpsSorted(items) == "{" \o JoinItems(SortKeys(items)) \o "}"

\* hashlib.md5(data.encode()).hexdigest(): a text that stands for the
\* digest of data; two different data never get the same one
Md5Hex(data) == "md5(" \o data \o ")"

\* ScanResultCache._generate_cache_key
generate_cache_key(tool_name, target, params) ==
    LET sorted_params == JsonDumpsSorted(params)
        data == tool_name \o ":" \o target \o ":" \o sorted_params
        hash_key == Md5Hex(data)
    IN  << "hexstrike", ":", "scan", ":", tool_name, ":", hash_key >>

\* The keys of all the arguments the calls are made with, computed once
KeyTable ==
    [tool_name \in CacheTools, target \in CacheTargets, params \in ParamMaps |->
        generate_cache_key(tool_name, target, ParamsOrEmpty(params))]

\* The key that get, set and invalidate compute from their arguments
KeyOf(tool_name, target, params) == KeyTable[tool_name, target, params]

\* What the calls of the cache are about
CacheSubjects ==
    { [tool_name |-> "httpx", target |-> "host", params |-> NoParams],
      [tool_name |-> "httpx", target |-> "host",
       params |-> Dict(<< <<"ports", "80">>, <<"rate", "10">> >>)],
      [tool_name |-> "gobuster", target |-> "host", params |-> NoParams] }

\* The keys of those calls
CacheKeys == { KeyOf(c.tool_name, c.target, c.params) : c \in CacheSubjects }

\* ------------------------------------------------ values and conversions
TheOne(opt) == CHOOSE x \in opt : TRUE

\* dict.get(k, default)
DictGet(d, k, default) == IF k \in DOMAIN d THEN d[k] ELSE default

\* del d[k]
Del(d, k) == [x \in DOMAIN d \ {k} |-> d[x]]

\* json.dumps / json.loads of a value made of dicts, strings and numbers:
\* the text is not the value, and loading it gives the value back
JsonDumps(obj) == [json |-> obj]

JsonLoads(text) == text.json

\* The dict an executor function returned
ResultDict(o) == [success |-> o.success, timed_out |-> o.timed_out, value |-> o.value]

\* The results that callers of set hand in: one that reports success and
\* one that does not
Payloads == { ResultDict(o) : o \in { x \in ExecOutcomes : x.isdict /\ ~x.timed_out } }

\* A key pattern is a sequence of pieces, "*" standing for the wildcard
Star == "*"

KeyPatterns ==
    { {},
      { << "hexstrike", ":", "scan", ":", "httpx", ":", Star >> },
      { << "hexstrike", ":", Star, ":", "httpx", ":", Star >> },
      { << "httpx" >> } }

\* Redis glob matching (KEYS pattern) with the wildcard "*"
RECURSIVE GlobMatch(_, _)
GlobMatch(pattern, key) ==
    IF pattern = << >> THEN key = << >>
    ELSE IF Head(pattern) = Star
         THEN \/ GlobMatch(Tail(pattern), key)
              \/ key # << >> /\ GlobMatch(pattern, Tail(key))
         ELSE /\ key # << >>
              /\ Head(key) = Head(pattern)
              /\ GlobMatch(Tail(pattern), Tail(key))

\* variant of RemoveStars: the pattern is taken as it is
RemoveStars_None(pattern) == pattern

\* pattern.replace('*', '')
RemoveStars(pattern) == SelectSeq(pattern, LAMBDA piece : piece # Star)

\* needle in hay, for strings
Contains(needle, hay) ==
    \E i \in 0..(Len(hay) - Len(needle)) : SubSeq(hay, i + 1, i + Len(needle)) = needle

\* `pattern.replace('*', '') in k`
SimpleMatch(pattern, key) == Contains(RemoveStars(pattern), key)

\* ----------------------------------------------------------- the server
\* A key of the server is there until its time to live is over
LiveKeys(db, t) == { k \in DOMAIN db : t < db[k].expires_at }

\* GET key
RedisGet(db, key, t) == IF key \in LiveKeys(db, t) THEN { db[key].value } ELSE {}

\* SETEX key seconds value
RedisSetex(db, key, seconds, value, t) ==
    Put(db, key, [value |-> value, expires_at |-> t + seconds])

\* KEYS pattern
RedisKeys(db, pattern, t) == { k \in LiveKeys(db, t) : GlobMatch(pattern, k) }

\* DEL key [key ...]: the keys are gone, the reply is how many were there
RedisDelete(db, keys, t) ==
    [db |-> [k \in DOMAIN db \ keys |-> db[k]],
     deleted |-> Cardinality(keys \cap LiveKeys(db, t))]

\* The server drops the keys whose time to live is over
RedisExpire(db, t) == [k \in LiveKeys(db, t) |-> db[k]]

\* ------------------------------------------------------ ScanResultCache
\* The cache object together with the server, as the methods see them
Self ==
    [use_redis |-> use_redis, redis_client |-> redis_client,
     memory_cache |-> memory_cache, redis_db |-> redis_db,
     redis_commands |-> redis_commands]

\* `if self.use_redis and self.redis_client`
UsesRedis(self) == self.use_redis /\ self.redis_client # None

Sent(self, command) ==
    [self EXCEPT !.redis_commands = self.redis_commands \cup {command}]

\* dataclass CacheEntry
CacheEntry(key, data, created_at, expires_at, tool_name, target) ==
    [key |-> key, data |-> data, created_at |-> created_at,
     expires_at |-> expires_at, tool_name |-> tool_name, target |-> target]

\* variant of ResolveTtl: the scan type is looked up before the tool
ResolveTtl_ScanTypeFirst(tool_name, ttl, scan_type) ==
    IF ttl # {} THEN TheOne(ttl)
    ELSE DictGet(DEFAULT_TTL, scan_type, DictGet(TOOL_TTL, tool_name, DEFAULT_TTL["default"]))

\* set: `if ttl is None: ttl = self.TOOL_TTL.get(tool_name,
\*          self.DEFAULT_TTL.get(scan_type, self.DEFAULT_TTL['default']))`
ResolveTtl(tool_name, ttl, scan_type) ==
    IF ttl # {} THEN TheOne(ttl)
    ELSE DictGet(TOOL_TTL, tool_name, DictGet(DEFAULT_TTL, scan_type, DEFAULT_TTL["default"]))

\* variant of MemoryLookup: the comparison with expires_at is the wrong way
\* round
MemoryLookup_Inverted(self, key, t) ==
    IF key \in DOMAIN self.memory_cache
    THEN IF t >= self.memory_cache[key].expires_at
         THEN [ret |-> { self.memory_cache[key].data }, self |-> self]
         ELSE [ret |-> {},
               self |-> [self EXCEPT !.memory_cache = Del(self.memory_cache, key)]]
    ELSE [ret |-> {}, self |-> self]

\* variant of MemoryLookup: the expiry time is not looked at
MemoryLookup_NoExpiry(self, key, t) ==
    IF key \in DOMAIN self.memory_cache
    THEN [ret |-> { self.memory_cache[key].data }, self |-> self]
    ELSE [ret |-> {}, self |-> self]

\* get, in-memory branch: an entry that is there is returned before its
\* expires_at and deleted from then on
MemoryLookup(self, key, t) ==
    IF key \in DOMAIN self.memory_cache
    THEN IF t < self.memory_cache[key].expires_at
         THEN [ret |-> { self.memory_cache[key].data }, self |-> self]
         ELSE [ret |-> {},
               self |-> [self EXCEPT !.memory_cache = Del(self.memory_cache, key)]]
    ELSE [ret |-> {}, self |-> self]

\* ScanResultCache.get at time t: what it returns (None: the empty set) and
\* the state it leaves
get(self, tool_name, target, params, t) ==
    LET cache_key == KeyOf(tool_name, target, params) IN
    IF UsesRedis(self)
    THEN LET cached == RedisGet(self.redis_db, cache_key, t) IN
         [ret |-> IF cached # {} THEN { JsonLoads(TheOne(cached)) } ELSE {},
          self |-> Sent(self, "get")]
    ELSE MemoryLookup(self, cache_key, t)

\* ScanResultCache.set at time t
set(self, tool_name, target, params, result, ttl, scan_type, t) ==
    LET cache_key == KeyOf(tool_name, target, params)
        seconds == ResolveTtl(tool_name, ttl, scan_type)
        cached_data == [result |-> result, tool_name |-> tool_name,
                        target |-> target, cached_at |-> t, ttl |-> seconds]
    IN  IF UsesRedis(self)
        THEN [ret |-> TRUE, seconds |-> seconds,
              self |-> [Sent(self, "setex") EXCEPT !.redis_db =
                          RedisSetex(self.redis_db, cache_key, seconds,
                                     JsonDumps(cached_data), t)]]
        ELSE LET entry == CacheEntry(cache_key, cached_data, t, t + seconds,
                                     tool_name, target)
             IN  [ret |-> TRUE, seconds |-> seconds,
                  self |-> [self EXCEPT !.memory_cache =
                              Put(self.memory_cache, cache_key, entry)]]

\* variant of MemoryDelete: the entry is reported gone and kept
MemoryDelete_Keep(self, key) ==
    [ret |-> key \in DOMAIN self.memory_cache, self |-> self]

\* invalidate, in-memory branch
MemoryDelete(self, key) ==
    IF key \in DOMAIN self.memory_cache
    THEN [ret |-> TRUE,
          self |-> [self EXCEPT !.memory_cache = Del(self.memory_cache, key)]]
    ELSE [ret |-> FALSE, self |-> self]

\* ScanResultCache.invalidate at time t
invalidate(self, tool_name, target, params, t) ==
    LET cache_key == KeyOf(tool_name, target, params) IN
    IF UsesRedis(self)
    THEN LET reply == RedisDelete(self.redis_db, {cache_key}, t) IN
         [ret |-> reply.deleted # 0,
          self |-> [Sent(self, "delete") EXCEPT !.redis_db = reply.db]]
    ELSE MemoryDelete(self, cache_key)

\* clear_all: a pattern that is None or the empty string counts as none
HasPattern(pattern) == pattern # {} /\ TheOne(pattern) # << >>

\* The namespace of the cache on the server: "hexstrike:scan:*"
Namespace == << "hexstrike", ":", "scan", ":", Star >>

\* ScanResultCache.clear_all at time t
clear_all(self, pattern, t) ==
    IF UsesRedis(self)
    THEN LET keys == RedisKeys(self.redis_db,
                               IF HasPattern(pattern) THEN TheOne(pattern) ELSE Namespace, t)
         IN  IF keys # {}
             THEN LET reply == RedisDelete(self.redis_db, keys, t) IN
                  [ret |-> reply.deleted,
                   self |-> [Sent(Sent(self, "keys"), "delete") EXCEPT !.redis_db = reply.db]]
             ELSE [ret |-> 0, self |-> Sent(self, "keys")]
    ELSE IF HasPattern(pattern)
         THEN LET keys_to_delete ==
                      { k \in DOMAIN self.memory_cache : SimpleMatch(TheOne(pattern), k) }
              IN  [ret |-> Cardinality(keys_to_delete),
                   self |-> [self EXCEPT !.memory_cache =
                               [k \in DOMAIN self.memory_cache \ keys_to_delete |->
                                   self.memory_cache[k]]]]
         ELSE [ret |-> Cardinality(DOMAIN self.memory_cache),
               self |-> [self EXCEPT !.memory_cache = EmptyDict]]

\* ---------------------------------------------------- CacheAwareExecutor
\* {**result, ...extra}: the extra entries win over the result's
Annotated(result, extra) == extra @@ result

\* variant of HitAnnotation: cached_at is the time of the call
HitAnnotation_Now(cached, t) == [from_cache |-> TRUE, cached_at |-> t]

\* 'from_cache': True, 'cached_at': cached.get('cached_at')
HitAnnotation(cached, t) == [from_cache |-> TRUE, cached_at |-> cached.cached_at]

\* variant of Cacheable: every dict is stored
Cacheable_AnyDict(o) == o.isdict

\* `isinstance(result, dict) and result.get('success')`
Cacheable(o) == o.isdict /\ o.success

\* variant of LookedUp: the cache is asked whatever force_refresh says
LookedUp_Always(self, tool_name, target, params, force_refresh, t) ==
    get(self, tool_name, target, params, t)

\* `if not force_refresh: cached = self.cache.get(tool_name, target, params)`
LookedUp(self, tool_name, target, params, force_refresh, t) ==
    IF force_refresh THEN [ret |-> {}, self |-> self]
    ELSE get(self, tool_name, target, params, t)

\* CacheAwareExecutor.execute_with_cache at time t, with o what
\* executor_func does if it is called. ret: the dict returned (none if the
\* call raised); invoked: how often executor_func was called; stored: the
\* seconds self.cache.set kept the result for, if it was called
execute_with_cache(self, tool_name, target, params, o, force_refresh, scan_type, t) ==
    LET looked == LookedUp(self, tool_name, target, params, force_refresh, t)
    IN  IF looked.ret # {}
        THEN LET cached == TheOne(looked.ret) IN
             [ret |-> { Annotated(cached.result, HitAnnotation(cached, t)) },
              raised |-> FALSE, invoked |-> 0, stored |-> {}, self |-> looked.self]
        ELSE IF o.raised
        THEN [ret |-> {}, raised |-> TRUE, invoked |-> 1, stored |-> {},
              self |-> looked.self]
        ELSE LET kept == IF Cacheable(o)
                         THEN set(looked.self, tool_name, target, params,
                                  ResultDict(o), {}, scan_type, t)
                         ELSE [ret |-> FALSE, seconds |-> 0, self |-> looked.self]
                 stored == IF kept.ret THEN { kept.seconds } ELSE {}
             IN  IF o.isdict
                 THEN [ret |-> { Annotated(ResultDict(o), [from_cache |-> FALSE]) },
                       raised |-> FALSE, invoked |-> 1, stored |-> stored,
                       self |-> kept.self]
                 ELSE [ret |-> {}, raised |-> TRUE, invoked |-> 1, stored |-> stored,
                       self |-> kept.self]

\* ------------------------------------------------------------- the calls
\* No batch of the scanner runs while the cache is looked at
NoScan ==
    /\ tasks = << >>
    /\ max_workers = 1
    /\ has_callback = FALSE
    /\ pc = "done"
    /\ sorted_tasks = << >>
    /\ cursor = 1
    /\ results = EmptyDict
    /\ completed_tasks = 0
    /\ future_to_task = << >>
    /\ work_queue = << >>
    /\ num_threads = 0
    /\ running = {}
    /\ invocations = << >>
    /\ overdue = {}
    /\ outcome = EmptyDict
    /\ future = EmptyDict
    /\ completion = << >>
    /\ finished_first = {}
    /\ finished_futures = << >>
    /\ yielded = << >>
    /\ calls = << >>

\* The arguments a ScanResultCache is built with and whether the server
\* answers: ScanResultCache(use_redis=False), and ScanResultCache(True,
\* client) with the server up or down
CacheConfigs ==
    { [use_redis |-> FALSE, redis_client |-> None,     reachable |-> FALSE],
      [use_redis |-> TRUE,  redis_client |-> "client", reachable |-> TRUE],
      [use_redis |-> TRUE,  redis_client |-> "client", reachable |-> FALSE] }

CacheInit ==
    /\ NoScan
    /\ NoResilience
    /\ NoThreads
    /\ NoSmart
    /\ \E c \in CacheConfigs :
         /\ use_redis = c.use_redis
         /\ redis_client = c.redis_client
         /\ redis_reachable = c.reachable
    /\ constructed = FALSE
    /\ memory_cache = EmptyDict
    /\ redis_db = EmptyDict
    /\ redis_commands = {}
    /\ now = 0
    /\ ticks = 0
    /\ ncalls = 0
    /\ last_call = [op |-> None]
    /\ written = EmptyDict

\* variant of PingFailed: a failed ping is ignored
PingFailed_Ignored(reachable) == FALSE

\* __init__: `except Exception` around redis_client.ping()
PingFailed(reachable) == ~reachable

\* ScanResultCache.__init__
ScanResultCache_init ==
    /\ ~constructed
    /\ constructed' = TRUE
    /\ memory_cache' = EmptyDict
    /\ IF use_redis /\ redis_client # None
       THEN /\ redis_commands' = redis_commands \cup {"ping"}
            /\ use_redis' = IF PingFailed(redis_reachable) THEN FALSE ELSE use_redis
       ELSE UNCHANGED << redis_commands, use_redis >>
    /\ UNCHANGED << redis_client, redis_reachable, redis_db, now, ticks, ncalls,
                    last_call, written >>
    /\ UNCHANGED << vars, res_vars, ext_vars >>

\* What a call leaves of the cache object and the server
Leaves(self) ==
    /\ memory_cache' = self.memory_cache
    /\ redis_db' = self.redis_db
    /\ redis_commands' = self.redis_commands
    /\ ncalls' = ncalls + 1
    /\ UNCHANGED << constructed, use_redis, redis_client, redis_reachable, now, ticks >>
    /\ UNCHANGED << vars, res_vars, ext_vars >>

\* The keys the backend in use holds after a call
Held(self) ==
    IF UsesRedis(self) THEN DOMAIN self.redis_db ELSE DOMAIN self.memory_cache

Callable == constructed /\ ncalls < MaxCalls

CallGet(c) ==
    /\ Callable
    /\ LET r == get(Self, c.tool_name, c.target, c.params, now) IN
         /\ Leaves(r.self)
         /\ last_call' = [op |-> "get", subject |-> c, at |-> now, ret |-> r.ret]
    /\ UNCHANGED written

CallSet(c, result, ttl, scan_type) ==
    /\ Callable
    /\ LET r == set(Self, c.tool_name, c.target, c.params, result, ttl, scan_type, now) IN
         /\ Leaves(r.self)
         /\ last_call' = [op |-> "set", subject |-> c, at |-> now, result |-> result,
                          ttl |-> ttl, scan_type |-> scan_type, ret |-> r.ret]
         /\ written' = IF r.ret
                       THEN Put(written, KeyOf(c.tool_name, c.target, c.params),
                                [subject |-> c, result |-> result, at |-> now,
                                 ttl |-> r.seconds])
                       ELSE written

CallInvalidate(c) ==
    /\ Callable
    /\ LET r == invalidate(Self, c.tool_name, c.target, c.params, now) IN
         /\ Leaves(r.self)
         /\ last_call' = [op |-> "invalidate", subject |-> c, at |-> now, ret |-> r.ret]
    /\ written' = Del(written, KeyOf(c.tool_name, c.target, c.params))

CallClearAll(pattern) ==
    /\ Callable
    /\ LET r == clear_all(Self, pattern, now) IN
         /\ Leaves(r.self)
         /\ last_call' = [op |-> "clear_all", pattern |-> pattern, at |-> now, ret |-> r.ret]
         /\ written' = [k \in DOMAIN written \cap Held(r.self) |-> written[k]]

CallExecuteWithCache(c, o, force_refresh, scan_type) ==
    /\ Callable
    /\ LET r == execute_with_cache(Self, c.tool_name, c.target, c.params, o,
                                   force_refresh, scan_type, now) IN
         /\ Leaves(r.self)
         /\ last_call' = [op |-> "execute_with_cache", subject |-> c, at |-> now,
                          force_refresh |-> force_refresh, scan_type |-> scan_type,
                          outcome |-> IF r.invoked = 0 THEN {} ELSE {o},
                          invoked |-> r.invoked, raised |-> r.raised, ret |-> r.ret]
         /\ written' = IF r.stored # {}
                       THEN Put(written, KeyOf(c.tool_name, c.target, c.params),
                                [subject |-> c, result |-> ResultDict(o), at |-> now,
                                 ttl |-> TheOne(r.stored)])
                       ELSE written

\* Time passes; the server drops the keys whose time to live is over
Tick(d) ==
    /\ constructed
    /\ ticks < MaxTicks
    /\ now' = now + d
    /\ ticks' = ticks + 1
    /\ redis_db' = RedisExpire(redis_db, now')
    /\ UNCHANGED << constructed, use_redis, redis_client, redis_reachable,
                    memory_cache, redis_commands, ncalls, last_call, written >>
    /\ UNCHANGED << vars, res_vars, ext_vars >>

\* What executor_func can do when execute_with_cache calls it
CacheOutcomes == { o \in ExecOutcomes : o.value # "killed" }

Getting == \E c \in CacheSubjects : CallGet(c)

Setting ==
    \E c \in CacheSubjects, result \in Payloads, ttl \in TtlArgs, scan_type \in ScanTypes :
        CallSet(c, result, ttl, scan_type)

Invalidating == \E c \in CacheSubjects : CallInvalidate(c)

Clearing == \E pattern \in KeyPatterns : CallClearAll(pattern)

Executing ==
    \E c \in CacheSubjects, o \in CacheOutcomes, force_refresh \in BOOLEAN,
       scan_type \in ScanTypes :
        CallExecuteWithCache(c, o, force_refresh, scan_type)

Ticking == \E d \in ClockSteps : Tick(d)

\* The calls of a ScanResultCache, in any order, as time passes
CacheNext ==
    \/ ScanResultCache_init
    \/ Getting
    \/ Setting
    \/ Invalidating
    \/ Clearing
    \/ Ticking

CacheSpec == CacheInit /\ [][CacheNext]_all_vars

\* The calls of a CacheAwareExecutor over a ScanResultCache of its own
ExecutorNext ==
    \/ ScanResultCache_init
    \/ Executing
    \/ Ticking

ExecutorSpec == CacheInit /\ [][ExecutorNext]_all_vars

\* The key function alone, tried on two params for the same tool and target
ComputeKeys(tool_name, target, params, other) ==
    /\ last_call' = [op |-> "_generate_cache_key", tool_name |-> tool_name,
                     target |-> target, params |-> params, other |-> other,
                     key |-> KeyOf(tool_name, target, params),
                     other_key |-> KeyOf(tool_name, target, other)]
    /\ UNCHANGED << constructed, use_redis, redis_client, redis_reachable,
                    memory_cache, redis_db, redis_commands, now, ticks, ncalls,
                    written >>
    /\ UNCHANGED << vars, res_vars, ext_vars >>

KeyInit == NoScan /\ NoCache /\ NoResilience /\ NoThreads /\ NoSmart

KeyNext ==
    \E tool_name \in CacheTools, target \in CacheTargets, params \in ParamMaps,
       other \in ParamMaps :
        ComputeKeys(tool_name, target, params, other)

KeySpec == KeyInit /\ [][KeyNext]_all_vars

\* ---------------------------------------------------- notions of the claims
\* the key/value pairs of a params argument; a missing one has none
ItemsOf(params) == IF params.given THEN Range(params.items) ELSE {}

KeysComputed == last_call.op = "_generate_cache_key"

\* C13: the cache key depends only on the tool, the target and the set of
\* key/value pairs of params: two params with the same pairs, in whatever
\* order, give the same key, and a missing params gives the key of the
\* empty dict.
C13_KeyOfItemsOnly ==
    KeysComputed =>
        (ItemsOf(last_call.params) = ItemsOf(last_call.other)
            => last_call.key = last_call.other_key)

\* two dicts of the same two items in different orders got the same key
C13_Witness ==
    /\ KeysComputed
    /\ last_call.params.given /\ last_call.other.given
    /\ Len(last_call.params.items) = 2
    /\ last_call.params.items # last_call.other.items
    /\ ItemsOf(last_call.params) = ItemsOf(last_call.other)
    /\ last_call.key = last_call.other_key

\* the process-local map is the backend in use
IsLocal == ~(use_redis /\ redis_client # None)

\* the key of the last call of get, set, invalidate or execute_with_cache
LastKey ==
    KeyOf(last_call.subject.tool_name, last_call.subject.target, last_call.subject.params)

Got == last_call.op = "get"

\* the last call was made while a set under its key was in force: not yet
\* expired by then / expired by then
Fresh ==
    /\ LastKey \in DOMAIN written
    /\ last_call.at < written[LastKey].at + written[LastKey].ttl

Stale ==
    /\ LastKey \in DOMAIN written
    /\ last_call.at >= written[LastKey].at + written[LastKey].ttl

\* C11 as stated: on the process-local backend, a get made after a set of v
\* under the same key and before that entry's TTL has elapsed returns
\* exactly v.
C11_GetReturnsPayload ==
    (Got /\ IsLocal /\ Fresh) => last_call.ret = { written[LastKey].result }

\* C11 amended: such a get returns the record that set stored: v under
\* 'result', next to tool_name, target, cached_at (the time of the set) and
\* ttl.
C11_GetReturnsRecord ==
    (Got /\ IsLocal /\ Fresh) =>
        last_call.ret =
            { [result |-> written[LastKey].result,
               tool_name |-> last_call.subject.tool_name,
               target |-> last_call.subject.target,
               cached_at |-> written[LastKey].at,
               ttl |-> written[LastKey].ttl] }

\* a get found what an earlier set had stored, after time had passed
C11_Witness ==
    /\ Got /\ IsLocal /\ Fresh
    /\ last_call.ret # {}
    /\ TheOne(last_call.ret).result = written[LastKey].result
    /\ last_call.at > written[LastKey].at

\* C12: on the process-local backend get never returns an entry whose
\* expiry time has been reached: it returns None and the entry is gone from
\* memory_cache.
C12_ExpiredIsAbsent ==
    (Got /\ IsLocal) =>
        /\ last_call.ret # {} => Fresh
        /\ Stale => (last_call.ret = {} /\ LastKey \notin DOMAIN memory_cache)

\* a get came at the very second an entry expired
C12_Witness ==
    /\ Got /\ IsLocal /\ Stale
    /\ last_call.at = written[LastKey].at + written[LastKey].ttl
    /\ last_call.ret = {}
    /\ LastKey \notin DOMAIN memory_cache

WasSet == last_call.op = "set"

\* the seconds C17 names for a set of a tool with a ttl argument and a scan
\* type
TtlByPrecedence(tool_name, ttl, scan_type) ==
    IF ttl # {} THEN TheOne(ttl)
    ELSE IF tool_name \in DOMAIN TOOL_TTL THEN TOOL_TTL[tool_name]
    ELSE IF scan_type \in DOMAIN DEFAULT_TTL THEN DEFAULT_TTL[scan_type]
    ELSE DEFAULT_TTL["default"]

\* the seconds the entry under the last call's key is kept for, from when it
\* was stored
KeptFor(stored_at) ==
    IF IsLocal
    THEN { memory_cache[LastKey].expires_at - stored_at, memory_cache[LastKey].data.ttl }
    ELSE IF LastKey \in DOMAIN redis_db
         THEN { redis_db[LastKey].expires_at - stored_at,
                JsonLoads(redis_db[LastKey].value).ttl }
         ELSE {}

\* C17: set keeps the entry for the explicit ttl when one is given, else
\* for the tool's own TTL when it has one, else for the TTL of the scan type
\* when that is a known one, else for the default TTL.
C17_TtlPrecedence ==
    (WasSet /\ last_call.ret) =>
        KeptFor(last_call.at) \subseteq
            { TtlByPrecedence(last_call.subject.tool_name, last_call.ttl,
                              last_call.scan_type) }

\* a set without ttl for a tool with a TTL of its own and a known scan type
\* of another TTL: the tool's TTL was taken
C17_Witness ==
    /\ WasSet /\ last_call.ret
    /\ last_call.ttl = {}
    /\ last_call.subject.tool_name \in DOMAIN TOOL_TTL
    /\ last_call.scan_type \in DOMAIN DEFAULT_TTL
    /\ DEFAULT_TTL[last_call.scan_type] # TOOL_TTL[last_call.subject.tool_name]
    /\ KeptFor(last_call.at) = { TOOL_TTL[last_call.subject.tool_name] }

\* the cache was built with a client whose ping failed
PingHadFailed == constructed /\ redis_client # None /\ ~redis_reachable

\* C18: a cache built with use_redis and a client whose ping fails is built
\* all the same, and from then on every call works on memory_cache and
\* sends the server nothing.
C18_DowngradedForGood ==
    PingHadFailed =>
        /\ ~use_redis
        /\ redis_commands = {"ping"}
        /\ redis_db = EmptyDict
        /\ (WasSet /\ last_call.ret) => LastKey \in DOMAIN memory_cache
        /\ (Got /\ last_call.ret # {}) => LastKey \in DOMAIN memory_cache

\* after the failed ping a set went to memory_cache
C18_Witness ==
    /\ PingHadFailed
    /\ WasSet /\ last_call.ret
    /\ LastKey \in DOMAIN memory_cache
    /\ redis_commands = {"ping"}

\* the step is a call of the method op
Stepped(op) == ncalls' = ncalls + 1 /\ last_call'.op = op

\* the entries of the backend in use
Backing == IF IsLocal THEN memory_cache ELSE redis_db

\* the result an entry of the backend in use holds
PayloadOf(entry) == IF IsLocal THEN entry.data.result ELSE JsonLoads(entry.value).result

\* every entry that is there before and after the step is the same
OthersKept(except) ==
    /\ DOMAIN Backing' \subseteq DOMAIN Backing
    /\ \A k \in DOMAIN Backing \ except : k \in DOMAIN Backing' /\ Backing'[k] = Backing[k]

\* C19: invalidate returns True exactly when the backend held an entry
\* under the key; afterwards the entry is gone, a get of the same arguments
\* returns None, and every entry under another key is as it was.
C19_InvalidateRemovesOne ==
    [][Stepped("invalidate") =>
        /\ last_call'.ret = (LastKey' \in DOMAIN Backing)
        /\ LastKey' \notin DOMAIN Backing'
        /\ get(Self', last_call'.subject.tool_name, last_call'.subject.target,
               last_call'.subject.params, now').ret = {}
        /\ OthersKept({LastKey'})
      ]_all_vars

\* invalidate removed one of two entries
C19_Witness ==
    /\ last_call.op = "invalidate"
    /\ last_call.ret
    /\ LastKey \notin DOMAIN Backing
    /\ DOMAIN Backing # {}

\* a pattern with its wildcards left out
RECURSIVE Unstarred(_)
Unstarred(pattern) ==
    IF pattern = << >> THEN << >>
    ELSE IF Head(pattern) = "*" THEN Unstarred(Tail(pattern))
    ELSE << Head(pattern) >> \o Unstarred(Tail(pattern))

\* what a clear_all step with a pattern does if `matching` are the keys
\* that match: they are gone, their number is returned, the others stay
ClearsExactly(matching) ==
    /\ DOMAIN Backing' = DOMAIN Backing \ matching
    /\ last_call'.ret = Cardinality(DOMAIN Backing \cap matching)
    /\ OthersKept(matching)

ClearsAll ==
    /\ DOMAIN Backing' = {}
    /\ last_call'.ret = Cardinality(DOMAIN Backing)

\* C20 as stated: clear_all without a pattern removes every entry and
\* returns their number; with a pattern it removes exactly the entries
\* whose key matches the pattern (a glob with the wildcard "*"), returns
\* their number and leaves the others as they were.
C20_ClearByPattern ==
    [][Stepped("clear_all") =>
        IF last_call'.pattern = {} THEN ClearsAll
        ELSE ClearsExactly({ k \in CacheKeys : GlobMatch(TheOne(last_call'.pattern), k) })
      ]_all_vars

\* C20 amended: with a pattern, the entries removed are those whose key
\* matches the glob on the Redis backend, and those whose key contains the
\* pattern with its "*" left out on the in-memory backend.
C20_ClearByBackendPattern ==
    [][Stepped("clear_all") =>
        IF last_call'.pattern = {} THEN ClearsAll
        ELSE IF IsLocal
        THEN ClearsExactly({ k \in CacheKeys :
                               Contains(Unstarred(TheOne(last_call'.pattern)), k) })
        ELSE ClearsExactly({ k \in CacheKeys : GlobMatch(TheOne(last_call'.pattern), k) })
      ]_all_vars

\* on the in-memory backend a clear_all with a pattern removed one entry
\* and left another
C20_Witness ==
    /\ last_call.op = "clear_all"
    /\ IsLocal
    /\ last_call.pattern # {}
    /\ Star \in Range(TheOne(last_call.pattern))
    /\ last_call.ret = 1
    /\ Cardinality(DOMAIN memory_cache) = 1

ExecutedWithCache == Stepped("execute_with_cache")

\* before the step, a result stored under the key of the call is in force:
\* the cache holds an unexpired entry for the arguments of the call
HeldFresh ==
    /\ LastKey' \in DOMAIN written
    /\ now < written[LastKey'].at + written[LastKey'].ttl

\* what a get of the key would find at the time of the step
Live(backing, key) ==
    IF key \in DOMAIN backing /\ now < backing[key].expires_at
    THEN { backing[key] } ELSE {}

\* the executor was called and did not return a dict with success=True
ExecutorFailed ==
    /\ last_call'.outcome # {}
    /\ \/ TheOne(last_call'.outcome).raised
       \/ ~TheOne(last_call'.outcome).isdict
       \/ ~TheOne(last_call'.outcome).success

ExecutorSucceeded == last_call'.outcome # {} /\ ~ExecutorFailed

\* C14: whatever calls of execute_with_cache are made, every entry of the
\* cache holds a result with success=True, and a call whose executor does
\* not report success writes nothing under its key: what a lookup finds
\* there is what it found before, nothing if it found nothing.
C14_FailuresNotCached ==
    [][ExecutedWithCache =>
        /\ \A k \in DOMAIN Backing' : PayloadOf(Backing'[k]).success
        /\ ExecutorFailed =>
             /\ Live(Backing', LastKey') = Live(Backing, LastKey')
             /\ LastKey' \in DOMAIN Backing' =>
                  (LastKey' \in DOMAIN Backing /\ Backing'[LastKey'] = Backing[LastKey'])
             /\ OthersKept({LastKey'})
      ]_all_vars

\* an executor returned success=False, the call returned its result, and
\* there is nothing under the key
C14_Witness ==
    /\ last_call.op = "execute_with_cache"
    /\ last_call.invoked = 1
    /\ last_call.ret # {}
    /\ ~TheOne(last_call.ret).success
    /\ LastKey \notin DOMAIN Backing
    /\ DOMAIN Backing # {}

\* C15: without force_refresh and with an unexpired entry for its
\* arguments, execute_with_cache returns the entry's result with
\* from_cache=True and cached_at the time the entry was stored, and does
\* not call the executor.
C15_HitSkipsExecutor ==
    [][(ExecutedWithCache /\ ~last_call'.force_refresh /\ HeldFresh) =>
        /\ last_call'.invoked = 0
        /\ ~last_call'.raised
        /\ last_call'.ret =
             { [success |-> written[LastKey'].result.success,
                timed_out |-> written[LastKey'].result.timed_out,
                value |-> written[LastKey'].result.value,
                from_cache |-> TRUE,
                cached_at |-> written[LastKey'].at] }
      ]_all_vars

\* a call was served from an entry stored some time before
C15_Witness ==
    /\ last_call.op = "execute_with_cache"
    /\ last_call.invoked = 0
    /\ last_call.ret # {}
    /\ TheOne(last_call.ret).from_cache
    /\ TheOne(last_call.ret).cached_at < last_call.at

\* what a call that has to run the executor does, when a successful result
\* is to be kept for `seconds`
RunsAndStores(seconds) ==
    /\ last_call'.invoked = 1
    /\ last_call'.ret # {} => ~TheOne(last_call'.ret).from_cache
    /\ ExecutorSucceeded =>
         /\ LastKey' \in DOMAIN Backing'
         /\ PayloadOf(Backing'[LastKey']) = ResultDict(TheOne(last_call'.outcome))
         /\ Backing'[LastKey'].expires_at = now + seconds
         /\ last_call'.ret # {}

\* C16 as stated: on a miss, and on every call with force_refresh, the
\* executor is called exactly once; a result that reports success is stored
\* under the key of the call, in place of what was there, for the TTL of
\* the given scan type; the dict returned has from_cache=False.
C16_MissStoresForScanType ==
    [][(ExecutedWithCache /\ (last_call'.force_refresh \/ ~HeldFresh)) =>
        RunsAndStores(DictGet(DEFAULT_TTL, last_call'.scan_type, DEFAULT_TTL["default"]))
      ]_all_vars

\* C16 amended: the result is stored for the TTL that set takes when it is
\* given no ttl: the tool's own TTL when it has one, else the TTL of the
\* given scan type, else the default.
C16_MissStoresByPrecedence ==
    [][(ExecutedWithCache /\ (last_call'.force_refresh \/ ~HeldFresh)) =>
        RunsAndStores(TtlByPrecedence(last_call'.subject.tool_name, {},
                                      last_call'.scan_type))
      ]_all_vars

\* a forced call for a tool with a TTL of its own and a scan type of another
\* TTL ran the executor and stored its result, some time after the start
C16_Witness ==
    /\ last_call.op = "execute_with_cache"
    /\ last_call.force_refresh
    /\ last_call.invoked = 1
    /\ last_call.ret # {}
    /\ TheOne(last_call.ret).success
    /\ ~TheOne(last_call.ret).from_cache
    /\ last_call.subject.tool_name \in DOMAIN TOOL_TTL
    /\ last_call.scan_type \in DOMAIN DEFAULT_TTL
    /\ LastKey \in DOMAIN Backing
    /\ Backing[LastKey].expires_at = last_call.at + TOOL_TTL[last_call.subject.tool_name]
    /\ last_call.at > 0

\* ======================================================================
\* The resilient executor of core/execution/error_handler.py
\* ======================================================================
\* A text (an error message, a stderr, a pattern) is a sequence of words;
\* f"{a} {b}" is then the concatenation of a and b.

\* ----------------------------------------------------------------- bounds
MaxRetries == 2

\* ------------------------------------------------- the error categories
\* str.lower() of one word: the words written with capitals in the patterns
\* and in the texts tried
LowerWord(w) ==
    CASE w = "No" -> "no"
      [] w = "Time" -> "time"
      [] w = "Operation" -> "operation"
      [] w = "Name" -> "name"
      [] w = "WAF" -> "waf"
      [] w = "Web" -> "web"
      [] w = "Application" -> "application"
      [] w = "Firewall" -> "firewall"
      [] w = "Command" -> "command"
      [] w = "Not" -> "not"
      [] w = "FOUND" -> "found"
      [] w = "Permission" -> "permission"
      [] w = "Rate" -> "rate"
      [] w = "Unknown" -> "unknown"
      [] w = "Execution" -> "execution"
      [] OTHER -> w

\* str.lower()
Lower(text) == [i \in DOMAIN text |-> LowerWord(text[i])]

\* variant of ERROR_PATTERNS: the rate limit group before the firewall group
ERROR_PATTERNS_RateFirst ==
    << [error_type |-> "tool_not_found",
        patterns |-> << <<"not", "found">>, <<"command", "not", "found">>,
                        <<"No", "such", "file", "or", "directory">> >>],
       [error_type |-> "timeout",
        patterns |-> << <<"timeout">>, <<"timed", "out">>,
                        <<"Time", "limit", "exceeded">> >>],
       [error_type |-> "permission_denied",
        patterns |-> << <<"permission", "denied">>, <<"access", "denied">>,
                        <<"Operation", "not", "permitted">> >>],
       [error_type |-> "network_error",
        patterns |-> << <<"connection", "refused">>, <<"network", "unreachable">>,
                        <<"no", "route", "to", "host">>,
                        <<"Name", "or", "service", "not", "known">> >>],
       [error_type |-> "rate_limited",
        patterns |-> << <<"rate", "limit">>, <<"too", "many", "requests">>,
                        <<"429">> >>],
       [error_type |-> "waf_detected",
        patterns |-> << <<"WAF">>, <<"Web", "Application", "Firewall">>,
                        <<"blocked", "by", "security">>, <<"rate", "limit">> >>] >>

\* ErrorDiagnostics.ERROR_PATTERNS, a dict: its items in insertion order
ERROR_PATTERNS ==
    << [error_type |-> "tool_not_found",
        patterns |-> << <<"not", "found">>, <<"command", "not", "found">>,
                        <<"No", "such", "file", "or", "directory">> >>],
       [error_type |-> "timeout",
        patterns |-> << <<"timeout">>, <<"timed", "out">>,
                        <<"Time", "limit", "exceeded">> >>],
       [error_type |-> "permission_denied",
        patterns |-> << <<"permission", "denied">>, <<"access", "denied">>,
                        <<"Operation", "not", "permitted">> >>],
       [error_type |-> "network_error",
        patterns |-> << <<"connection", "refused">>, <<"network", "unreachable">>,
                        <<"no", "route", "to", "host">>,
                        <<"Name", "or", "service", "not", "known">> >>],
       [error_type |-> "waf_detected",
        patterns |-> << <<"WAF">>, <<"Web", "Application", "Firewall">>,
                        <<"blocked", "by", "security">>, <<"rate", "limit">> >>],
       [error_type |-> "rate_limited",
        patterns |-> << <<"rate", "limit">>, <<"too", "many", "requests">>,
                        <<"429">> >>] >>

\* `for pattern in patterns: if pattern.lower() in combined_text`
AnyPatternIn(patterns, combined_text) ==
    \E j \in 1..Len(patterns) : Contains(Lower(patterns[j]), combined_text)

\* `for error_type, patterns in cls.ERROR_PATTERNS.items()`, from item i on
RECURSIVE FirstMatching(_, _)
FirstMatching(i, combined_text) ==
    IF i > Len(ERROR_PATTERNS) THEN "unknown"
    ELSE IF AnyPatternIn(ERROR_PATTERNS[i].patterns, combined_text)
         THEN ERROR_PATTERNS[i].error_type
         ELSE FirstMatching(i + 1, combined_text)

\* ErrorDiagnostics.diagnose_error; returncode is not looked at
diagnose_error(error_message, stderr) ==
    FirstMatching(1, Lower(error_message \o stderr))

\* The texts the classification is tried on, as message and as stderr
ErrorTexts ==
    { << >>,
      <<"boom">>,
      <<"command", "not", "found">>,
      <<"Command", "Not", "FOUND">>,
      <<"not">>,
      <<"found">>,
      <<"connection", "timed", "out">>,
      <<"connection", "refused", "timeout">>,
      <<"Permission", "denied">>,
      <<"Rate", "limit", "exceeded">>,
      <<"429", "too", "many", "requests">>,
      <<"blocked", "by", "WAF">>,
      <<"file", "not", "found", "access", "denied">> }

\* One classification
Diagnose(error_message, stderr) ==
    /\ res_call' = [op |-> "diagnose_error", error_message |-> error_message,
                    stderr |-> stderr]
    /\ res_ret' = { diagnose_error(error_message, stderr) }
    /\ UNCHANGED << resilient, tool_checker, res_pc, retry_count, last_error,
                    alt_cursor, res_trace >>
    /\ UNCHANGED << vars, cache_vars, ext_vars >>

DiagnoseInit == NoScan /\ NoCache /\ NoResilience /\ NoThreads /\ NoSmart

DiagnoseNext ==
    \E error_message \in ErrorTexts, stderr \in ErrorTexts :
        Diagnose(error_message, stderr)

\* The classification alone, tried on pairs of texts
DiagnoseSpec == DiagnoseInit /\ [][DiagnoseNext]_all_vars

\* ---------------------------------------------------------------- C30
\* The groups in the order the classification is documented to follow
GroupOrder ==
    << "tool_not_found", "timeout", "permission_denied", "network_error",
       "waf_detected", "rate_limited" >>

Diagnosed == "op" \in DOMAIN res_call /\ res_call.op = "diagnose_error"

\* The words of the message followed by those of stderr
CombinedText == res_call.error_message \o res_call.stderr

\* Some pattern of the group occurs in the combined text, whatever the case
\* of the letters
GroupOccurs(g) ==
    \E i \in 1..Len(ERROR_PATTERNS) :
        /\ ERROR_PATTERNS[i].error_type = g
        /\ \E p \in Range(ERROR_PATTERNS[i].patterns) :
             \E at \in 0..(Len(CombinedText) - Len(p)) :
                 \A k \in 1..Len(p) :
                     LowerWord(CombinedText[at + k]) = LowerWord(p[k])

\* C30: the category returned is the earliest group, in the order
\* tool-not-found, timeout, permission-denied, network-error, waf-detected,
\* rate-limited, one of whose patterns occurs case-insensitively in the
\* message followed by stderr, and unknown when no group has one
C30_FirstGroupWins ==
    Diagnosed =>
        /\ (\A n \in 1..Len(GroupOrder) : ~GroupOccurs(GroupOrder[n])) =>
               res_ret = {"unknown"}
        /\ \A n \in 1..Len(GroupOrder) :
               (/\ GroupOccurs(GroupOrder[n])
                /\ \A m \in 1..(n - 1) : ~GroupOccurs(GroupOrder[m])) =>
                   res_ret = {GroupOrder[n]}

\* a text with "rate limit", which two groups have, written with a capital:
\* the firewall group, the earlier one, is returned
C30_Witness ==
    /\ Diagnosed
    /\ GroupOccurs("waf_detected")
    /\ GroupOccurs("rate_limited")
    /\ \E i \in 1..Len(CombinedText) : CombinedText[i] # LowerWord(CombinedText[i])
    /\ res_ret = {"waf_detected"}

\* ------------------------------------------------ the substitution table
\* ToolAlternatives.ALTERNATIVES: the entry of httpx
ALTERNATIVES == [ t \in {"httpx"} |-> <<"curl", "wget">> ]

\* ToolAlternatives.get_alternatives
get_alternatives(tool_name) == DictGet(ALTERNATIVES, tool_name, << >>)

\* The tools execute_with_resilience is called for: one with alternatives
\* and one without
ResTools == {"httpx", "whatweb"}

\* ToolChecker.is_tool_available, which answers the same for a tool at every
\* call (lru_cache): the set of the tools reported available
is_tool_available(available, tool_name) == tool_name \in available

\* ------------------------------------------------------- the suggestions
\* ErrorDiagnostics.get_suggestions; a suggestion is a text
get_suggestions(error_type, tool_name, available) ==
    CASE error_type = "tool_not_found" ->
           (IF ~is_tool_available(available, tool_name)
            THEN << <<"Install", tool_name>> >> ELSE << >>)
           \o (IF get_alternatives(tool_name) # << >>
               THEN << <<"Try alternative tools:">> \o get_alternatives(tool_name) >>
               ELSE << >>)
      [] error_type = "timeout" ->
           << <<"Increase timeout value">>, <<"Check network connectivity">>,
              <<"Use faster scan options">> >>
      [] error_type = "permission_denied" ->
           << <<"Run with sudo: sudo", tool_name>>, <<"Check file permissions">> >>
      [] error_type = "network_error" ->
           << <<"Check network connectivity">>,
              <<"Verify target is reachable: ping <target>">>,
              <<"Check DNS resolution">> >>
      [] error_type = "waf_detected" ->
           << <<"Use WAF bypass techniques">>, <<"Add delay between requests">>,
              <<"Use custom user-agent">>, <<"Consider using tamper scripts">> >>
      [] error_type = "rate_limited" ->
           << <<"Reduce request rate">>, <<"Add delay between requests">>,
              <<"Use proxy rotation">> >>
      [] OTHER -> << >>

\* ErrorContext
ErrorContext(error_type, tool_name, target, error_message, timestamp, retries, suggestions) ==
    [error_type |-> error_type, tool_name |-> tool_name, target |-> target,
     error_message |-> error_message, timestamp |-> timestamp,
     retry_count |-> retries, suggestions |-> suggestions]

\* ResilientExecutor._create_failure_result; error_context is None or an
\* ErrorContext
create_failure_result(tool_name, target, error_context) ==
    IF error_context # {}
    THEN [success |-> FALSE, tool |-> tool_name, target |-> target,
          error |-> TheOne(error_context).error_message,
          error_type |-> TheOne(error_context).error_type,
          retry_count |-> TheOne(error_context).retry_count,
          suggestions |-> TheOne(error_context).suggestions,
          timestamp |-> TheOne(error_context).timestamp]
    ELSE [success |-> FALSE, tool |-> tool_name, target |-> target,
          error |-> <<"Unknown", "error">>,
          suggestions |-> << <<"Review error logs">>, <<"Check tool installation">> >>]

\* ------------------------------------------------------- executor calls
\* What executor_func can do at one call: return a dict that reports success,
\* a dict that reports a failure (here: the tool is missing, the tool timed
\* out), something that is not a dict, or raise an Exception (here with a
\* message that the patterns of a missing tool match)
ResOutcomes ==
    { [raised |-> FALSE, isdict |-> TRUE,
       result |-> [success |-> TRUE, stdout |-> "found"]],
      [raised |-> FALSE, isdict |-> TRUE,
       result |-> [success |-> FALSE, error |-> <<"Command", "not", "found">>]],
      [raised |-> FALSE, isdict |-> TRUE,
       result |-> [success |-> FALSE, error |-> <<"boom">>,
                   stderr |-> <<"connection", "timed", "out">>]],
      [raised |-> FALSE, isdict |-> FALSE, result |-> [text |-> "text"]],
      [raised |-> TRUE, isdict |-> FALSE,
       result |-> [message |-> <<"httpx", "not", "found">>]] }

\* What the executor of an alternative can do at one call: the same, and a
\* dict that has no 'success'
AltOutcomes ==
    { [raised |-> FALSE, isdict |-> TRUE,
       result |-> [success |-> TRUE, stdout |-> "fetched"]],
      [raised |-> FALSE, isdict |-> TRUE, result |-> [stdout |-> "partial"]],
      [raised |-> TRUE, isdict |-> FALSE, result |-> [message |-> <<"boom">>]] }

\* `isinstance(result, dict) and result.get('success')`
Succeeded(o) == ~o.raised /\ o.isdict /\ DictGet(o.result, "success", FALSE)

\* `result.get('error', 'Unknown error') if isinstance(result, dict) else
\* 'Execution failed'`
ErrorMsgOf(o) ==
    IF o.isdict THEN DictGet(o.result, "error", <<"Unknown", "error">>)
    ELSE <<"Execution", "failed">>

\* `result.get('stderr', '') if isinstance(result, dict) else ''`
StderrOf(o) == IF o.isdict THEN DictGet(o.result, "stderr", << >>) ELSE << >>

\* variant of NonRetryable: every category is retried
NonRetryable_None == {}

\* `if error_type in [ErrorType.TOOL_NOT_FOUND, ErrorType.INVALID_TARGET]`
NonRetryable == {"tool_not_found", "invalid_target"}

\* `except Exception as e` of the loop over the attempts
CaughtInLoop(o) == o.raised

\* variant of CaughtInFallback: an exception of an alternative is not caught
CaughtInFallback_Never(o) == FALSE

\* `except Exception as e: continue` of the loop over the alternatives
CaughtInFallback(o) == o.raised

\* `ErrorDiagnostics.diagnose_error(error_msg, stderr, returncode)` for what
\* executor_func returned, computed once for every outcome
DiagnosisTable ==
    [ o \in { x \in ResOutcomes : ~x.raised } |->
        diagnose_error(ErrorMsgOf(o), StderrOf(o)) ]

\* The ErrorContext of a failed attempt made at time t
AttemptError(o, tool_name, target, retries, available, t) ==
    IF o.raised
    THEN ErrorContext("unknown", tool_name, target, o.result.message, t, retries,
                      << <<"Check tool installation">>, <<"Review error logs">> >>)
    ELSE LET error_msg == ErrorMsgOf(o)
             error_type == DiagnosisTable[o]
         IN ErrorContext(error_type, tool_name, target, error_msg, t, retries,
                         get_suggestions(error_type, tool_name, available))

\* The call of an executor function, as the trace keeps it
CallEvent(role, tool, target, params, o, t) ==
    [ev |-> "call", role |-> role, tool |-> tool, target |-> target,
     params |-> params, outcome |-> o, at |-> t]

\* time.sleep(seconds)
SleepEvent(seconds) == [ev |-> "sleep", seconds |-> seconds]

\* An alternative passed over without a call
SkipEvent(tool) == [ev |-> "skip", tool |-> tool]

\* ------------------------------------------------ execute_with_resilience
\* The delay a ResilientExecutor is built with
RetryDelays == {2}

\* What ToolChecker reports available and which tools have an executor in
\* tool_executors
Registries ==
    { [available |-> {"httpx", "curl", "wget"}, executors |-> {"httpx", "curl", "wget"}],
      [available |-> {"wget"},                  executors |-> {"httpx", "curl", "wget"}],
      [available |-> {"httpx", "curl", "wget"}, executors |-> {"httpx", "wget"}],
      [available |-> {"httpx", "curl"},         executors |-> {"httpx", "curl"}],
      [available |-> {},                        executors |-> {"httpx", "curl", "wget"}] }

\* The params every call is made with
ResParams == Dict(<< <<"ports", "80">> >>)

\* A ResilientExecutor and one call of execute_with_resilience on it, about
\* to make its first attempt
ResInit ==
    /\ NoScan
    /\ NoCache
    /\ NoThreads
    /\ NoSmart
    /\ \E m \in 0..MaxRetries, d \in RetryDelays, f \in BOOLEAN :
         resilient = [max_retries |-> m, retry_delay |-> d, enable_fallback |-> f]
    /\ \E tool_name \in ResTools, target \in CacheTargets, r \in Registries :
         /\ res_call = [tool_name |-> tool_name, target |-> target,
                        params |-> ResParams, tool_executors |-> r.executors]
         /\ tool_checker = r.available
    /\ res_pc = "attempting"
    /\ retry_count = 0
    /\ last_error = {}
    /\ alt_cursor = 0
    /\ res_trace = << >>
    /\ res_ret = {}

\* The clock reads t; the cache and the scanner are left alone
ClockAt(t) ==
    /\ now' = t
    /\ UNCHANGED << constructed, use_redis, redis_client, redis_reachable,
                    memory_cache, redis_db, redis_commands, ticks, ncalls,
                    last_call, written >>
    /\ UNCHANGED << vars, ext_vars >>

\* variant of RetryBudgetLeft: the last retry is not made
RetryBudgetLeft_Short(count, max_retries) == count < max_retries

\* `retry_count <= self.max_retries`, the test of the loop and of the sleep
RetryBudgetLeft(count, max_retries) == count <= max_retries

\* variant of PrimaryResult: the retries are reported in the result
PrimaryResult_Counted(o, retries) ==
    [retry_count |-> retries, used_alternative |-> FALSE] @@ o.result

\* `return result` of a successful attempt
PrimaryResult(o, retries) == o.result

\* variant of Remember: the first error is kept
Remember_First(last, context) == IF last = {} THEN {context} ELSE last

\* `last_error = error_context`
Remember(last, context) == {context}

\* One pass of `while retry_count <= self.max_retries`: executor_func is
\* called and does o
Attempt(o) ==
    /\ res_pc = "attempting"
    /\ LET call == CallEvent("primary", res_call.tool_name, res_call.target,
                             res_call.params, o, now)
           context == AttemptError(o, res_call.tool_name, res_call.target,
                                   retry_count, tool_checker, now)
           breaks == ~o.raised /\ context.error_type \in NonRetryable
           count == IF breaks THEN retry_count ELSE retry_count + 1
           sleeps == ~breaks /\ RetryBudgetLeft(count, resilient.max_retries)
       IN
         IF o.raised /\ ~CaughtInLoop(o)
         THEN /\ res_pc' = "raised"
              /\ res_trace' = Append(res_trace, call)
              /\ ClockAt(now)
              /\ UNCHANGED << retry_count, last_error, res_ret >>
         ELSE IF Succeeded(o)
         THEN /\ res_pc' = "returned"
              /\ res_ret' = { PrimaryResult(o, retry_count) }
              /\ res_trace' = Append(res_trace, call)
              /\ ClockAt(now)
              /\ UNCHANGED << retry_count, last_error >>
         ELSE /\ last_error' = Remember(last_error, context)
              /\ retry_count' = count
              /\ res_trace' = IF sleeps
                              THEN res_trace \o << call, SleepEvent(resilient.retry_delay) >>
                              ELSE Append(res_trace, call)
              /\ ClockAt(IF sleeps THEN now + resilient.retry_delay ELSE now)
              /\ res_pc' = IF sleeps THEN "attempting" ELSE "left_loop"
              /\ UNCHANGED res_ret
    /\ UNCHANGED << resilient, res_call, tool_checker, alt_cursor >>

\* variant of FallsBack: fallback cannot be disabled
FallsBack_Always(enable_fallback, error) == error # {}

\* `if self.enable_fallback and last_error`
FallsBack(enable_fallback, error) == enable_fallback /\ error # {}

\* After the loop: `if self.enable_fallback and last_error` enters
\* _try_fallback, which returns at once when the tool has no alternatives
LeaveLoop ==
    /\ res_pc = "left_loop"
    /\ IF FallsBack(resilient.enable_fallback, last_error)
          /\ get_alternatives(res_call.tool_name) # << >>
       THEN /\ res_pc' = "fallback"
            /\ alt_cursor' = 1
            /\ UNCHANGED res_ret
       ELSE /\ res_pc' = "returned"
            /\ res_ret' = { create_failure_result(res_call.tool_name, res_call.target,
                                                  last_error) }
            /\ UNCHANGED alt_cursor
    /\ ClockAt(now)
    /\ UNCHANGED << resilient, res_call, tool_checker, retry_count, last_error,
                    res_trace >>

\* `for alt_tool in alternatives`: the alternative the loop is at
alt_tool == get_alternatives(res_call.tool_name)[alt_cursor]

InFallback ==
    /\ res_pc = "fallback"
    /\ alt_cursor <= Len(get_alternatives(res_call.tool_name))

\* variant of Eligible: an alternative needs no executor of its own
Eligible_Unregistered(tool) == is_tool_available(tool_checker, tool)

\* Neither `continue` is taken for the alternative
Eligible(tool) ==
    /\ is_tool_available(tool_checker, tool)
    /\ tool \in res_call.tool_executors

\* The alternative is not installed or has no executor: `continue`
SkipAlternative ==
    /\ InFallback
    /\ ~Eligible(alt_tool)
    /\ alt_cursor' = alt_cursor + 1
    /\ res_trace' = Append(res_trace, SkipEvent(alt_tool))
    /\ ClockAt(now)
    /\ UNCHANGED << resilient, res_call, tool_checker, res_pc, retry_count,
                    last_error, res_ret >>

\* variant of FallbackAnnotation: the alternative is not named
FallbackAnnotation_Anonymous(original_tool, alternative) ==
    [used_alternative |-> TRUE, original_tool |-> original_tool,
     alternative_tool |-> original_tool]

\* 'used_alternative': True, 'original_tool': ..., 'alternative_tool': ...
FallbackAnnotation(original_tool, alternative) ==
    [used_alternative |-> TRUE, original_tool |-> original_tool,
     alternative_tool |-> alternative]

\* The executor of the alternative is called and does o
TryAlternative(o) ==
    /\ InFallback
    /\ Eligible(alt_tool)
    /\ res_trace' = Append(res_trace,
                           CallEvent("alternative", alt_tool, res_call.target,
                                     res_call.params, o, now))
    /\ IF o.raised /\ ~CaughtInFallback(o)
       THEN /\ res_pc' = "raised"
            /\ UNCHANGED << alt_cursor, res_ret >>
       ELSE IF Succeeded(o)
       THEN /\ res_pc' = "returned"
            /\ res_ret' = { Annotated(o.result,
                                      FallbackAnnotation(res_call.tool_name, alt_tool)) }
            /\ UNCHANGED alt_cursor
       ELSE /\ alt_cursor' = alt_cursor + 1
            /\ UNCHANGED << res_pc, res_ret >>
    /\ ClockAt(now)
    /\ UNCHANGED << resilient, res_call, tool_checker, retry_count, last_error >>

\* The alternatives are used up: the failure of the original tool is returned
FallbackExhausted ==
    /\ res_pc = "fallback"
    /\ alt_cursor > Len(get_alternatives(res_call.tool_name))
    /\ res_pc' = "returned"
    /\ res_ret' = { create_failure_result(res_call.tool_name, res_call.target,
                                          last_error) }
    /\ ClockAt(now)
    /\ UNCHANGED << resilient, res_call, tool_checker, retry_count, last_error,
                    alt_cursor, res_trace >>

Attempting == \E o \in ResOutcomes : Attempt(o)

TryingAlternative == \E o \in AltOutcomes : TryAlternative(o)

ResNext ==
    \/ Attempting
    \/ LeaveLoop
    \/ SkipAlternative
    \/ TryingAlternative
    \/ FallbackExhausted

\* One call of execute_with_resilience, whatever its executors do
ResSpec == ResInit /\ [][ResNext]_all_vars

\* The same call when every executor function called comes back
FairResSpec == ResInit /\ [][ResNext]_all_vars /\ WF_all_vars(ResNext)

\* ------------------------------------------------- notions of the claims
\* The positions of the trace at which the executor of the original tool
\* was called, and those at which the fallback looked at an alternative
PrimaryCalls ==
    { i \in 1..Len(res_trace) :
        res_trace[i].ev = "call" /\ res_trace[i].role = "primary" }

AlternativeCalls ==
    { i \in 1..Len(res_trace) :
        res_trace[i].ev = "call" /\ res_trace[i].role = "alternative" }

Skips == { i \in 1..Len(res_trace) : res_trace[i].ev = "skip" }

Sleeps == { i \in 1..Len(res_trace) : res_trace[i].ev = "sleep" }

\* The outcome reports success: a dict whose 'success' is true
ReportsSuccess(o) ==
    ~o.raised /\ o.isdict /\ "success" \in DOMAIN o.result /\ o.result.success

\* The category of a failed attempt: the classification of what the executor
\* returned, and unknown for an exception
CategoryOf(o) ==
    IF o.raised THEN "unknown" ELSE diagnose_error(ErrorMsgOf(o), StderrOf(o))

NonRetryableCategories == {"tool_not_found", "invalid_target"}

\* The attempt at position i failed with a category that is not retried
FailedForGood(i) ==
    /\ ~ReportsSuccess(res_trace[i].outcome)
    /\ CategoryOf(res_trace[i].outcome) \in NonRetryableCategories

\* The attempt at position i failed with a category that is retried
FailedForNow(i) ==
    /\ ~ReportsSuccess(res_trace[i].outcome)
    /\ CategoryOf(res_trace[i].outcome) \notin NonRetryableCategories

ResCalled == res_pc # "idle"

\* The fallback has been entered
FallbackEntered ==
    res_pc = "fallback" \/ AlternativeCalls # {} \/ Skips # {}

Last(S) == CHOOSE i \in S : \A j \in S : j <= i

\* ---------------------------------------------------------------- C22
\* C22: an attempt whose failure is classified tool-not-found (or
\* invalid-target) is the last call of the original tool's executor, consumes
\* no retry (retry_count stays the number of earlier attempts) and is
\* followed by no sleep; when it is the first attempt the executor has been
\* called exactly once, whatever max_retries >= 0
C22_NonRetryableOnce ==
    ResCalled =>
        \A i \in PrimaryCalls :
            FailedForGood(i) =>
                /\ \A j \in PrimaryCalls \cup Sleeps : j <= i
                /\ retry_count = Cardinality({ j \in PrimaryCalls : j < i })
                /\ (i = 1 => Cardinality(PrimaryCalls) = 1 /\ retry_count = 0)
                /\ res_pc \in {"left_loop", "fallback", "returned"}

\* with two retries allowed, the tool was reported missing at the first
\* attempt and the fallback has called an alternative
C22_Witness ==
    /\ ResCalled
    /\ resilient.max_retries = 2
    /\ 1 \in PrimaryCalls
    /\ FailedForGood(1)
    /\ AlternativeCalls # {}
    /\ Cardinality(PrimaryCalls) = 1

\* ---------------------------------------------------------------- C23
\* C23: the original tool's executor is called at most max_retries + 1
\* times and nothing is called once an attempt returned success; every
\* attempt but the first comes right after a sleep of retry_delay, and every
\* sleep is one of retry_delay followed by an attempt; when all failures are
\* of retryable categories, fallback is entered only after max_retries + 1
\* attempts
C23_RetryBudget ==
    ResCalled =>
        /\ Cardinality(PrimaryCalls) <= resilient.max_retries + 1
        /\ \A i \in PrimaryCalls :
               ReportsSuccess(res_trace[i].outcome) => i = Len(res_trace)
        /\ \A i \in PrimaryCalls :
               i # 1 => /\ res_trace[i - 1] = [ev |-> "sleep",
                                               seconds |-> resilient.retry_delay]
                        /\ now >= res_trace[i].at
                        /\ res_trace[i].at =
                               res_trace[i - 2].at + resilient.retry_delay
        /\ \A i \in Sleeps :
               /\ res_trace[i].seconds = resilient.retry_delay
               /\ i - 1 \in PrimaryCalls
               /\ i < Len(res_trace) => i + 1 \in PrimaryCalls
               /\ i = Len(res_trace) => res_pc = "attempting"
        /\ (FallbackEntered /\ \A i \in PrimaryCalls : FailedForNow(i)) =>
               Cardinality(PrimaryCalls) = resilient.max_retries + 1

\* two retries were made after retryable failures, all three attempts
\* failed, and the fallback was entered then
C23_Witness ==
    /\ ResCalled
    /\ resilient.max_retries = 2
    /\ Cardinality(PrimaryCalls) = 3
    /\ Cardinality(Sleeps) = 2
    /\ \A i \in PrimaryCalls : FailedForNow(i)
    /\ res_pc = "fallback"

\* ---------------------------------------------------------------- C24
\* The call has returned the success of the original tool after n attempts
\* that failed with retryable categories
RetriedThenSucceeded(n) ==
    /\ res_pc = "returned"
    /\ Cardinality(PrimaryCalls) = n + 1
    /\ PrimaryCalls # {}
    /\ ReportsSuccess(res_trace[Last(PrimaryCalls)].outcome)
    /\ \A i \in PrimaryCalls : i # Last(PrimaryCalls) => FailedForNow(i)

Retries == Cardinality(PrimaryCalls) - 1

\* C24 as stated: after n retryable failures and a success the result has
\* success=true, retry_count=n and used_alternative=false
C24_SuccessReportsRetries ==
    (ResCalled /\ RetriedThenSucceeded(Retries)) =>
        LET ret == TheOne(res_ret) IN
          /\ ret.success
          /\ "retry_count" \in DOMAIN ret
          /\ ret.retry_count = Retries
          /\ "used_alternative" \in DOMAIN ret
          /\ ~ret.used_alternative

\* C24 amended: after n <= max_retries retryable failures and a success the
\* call returns the result of the successful attempt as the executor
\* returned it: success=true and nothing added, neither retry_count nor
\* used_alternative; no alternative has been looked at
C24_SuccessReturnedAsIs ==
    (ResCalled /\ RetriedThenSucceeded(Retries)) =>
        LET ret == TheOne(res_ret)
            result == res_trace[Last(PrimaryCalls)].outcome.result
        IN
          /\ Retries <= resilient.max_retries
          /\ ret.success
          /\ DOMAIN ret = DOMAIN result
          /\ \A k \in DOMAIN result : ret[k] = result[k]
          /\ ~FallbackEntered

\* two retryable failures, then success, with two retries allowed
C24_Witness ==
    /\ ResCalled
    /\ resilient.max_retries = 2
    /\ RetriedThenSucceeded(2)
    /\ TheOne(res_ret).success

\* ---------------------------------------------------------------- C25
\* The last thing the call did was to call an alternative that reported
\* success
AlternativeSucceeded ==
    /\ AlternativeCalls # {}
    /\ ReportsSuccess(res_trace[Last(AlternativeCalls)].outcome)

\* C25: when an alternative B of the original tool A is called and reports
\* success, the call returns B's result with success=true,
\* used_alternative=true, original_tool=A and alternative_tool=B
C25_FallbackSuccess ==
    (ResCalled /\ AlternativeSucceeded) =>
        LET b == res_trace[Last(AlternativeCalls)] IN
          /\ res_pc = "returned"
          /\ res_ret # {}
          /\ TheOne(res_ret).success
          /\ TheOne(res_ret).used_alternative
          /\ TheOne(res_ret).original_tool = res_call.tool_name
          /\ TheOne(res_ret).alternative_tool = b.tool
          /\ b.tool \in Range(get_alternatives(res_call.tool_name))
          /\ \A k \in DOMAIN b.outcome.result :
                 TheOne(res_ret)[k] = b.outcome.result[k]

\* the original tool used up its two retries, the first alternative did not
\* succeed and the second one did
C25_Witness ==
    /\ ResCalled
    /\ Cardinality(PrimaryCalls) = 3
    /\ Cardinality(AlternativeCalls) = 2
    /\ AlternativeSucceeded
    /\ res_pc = "returned"
    /\ TheOne(res_ret).alternative_tool = "wget"

\* ---------------------------------------------------------------- C26
\* The positions at which the fallback looked at an alternative, in order
FallbackSteps == SelectSeq([i \in 1..Len(res_trace) |-> i],
                           LAMBDA i : i \in AlternativeCalls \cup Skips)

\* C26: the fallback looks at the alternatives in the order of the table,
\* each at most once; one that is reported unavailable or has no executor is
\* passed over without a call; one that is called gets the target and the
\* params of the original call; nothing follows an alternative's success
C26_AlternativesInOrder ==
    ResCalled =>
        /\ Len(FallbackSteps) <= Len(get_alternatives(res_call.tool_name))
        /\ \A n \in 1..Len(FallbackSteps) :
               res_trace[FallbackSteps[n]].tool =
                   get_alternatives(res_call.tool_name)[n]
        /\ \A i \in Skips :
               \/ res_trace[i].tool \notin tool_checker
               \/ res_trace[i].tool \notin res_call.tool_executors
        /\ \A i \in AlternativeCalls :
               /\ res_trace[i].tool \in tool_checker
               /\ res_trace[i].tool \in res_call.tool_executors
               /\ res_trace[i].target = res_call.target
               /\ res_trace[i].params = res_call.params
               /\ ReportsSuccess(res_trace[i].outcome) => i = Len(res_trace)
        /\ \A i \in PrimaryCalls : \A j \in AlternativeCalls \cup Skips : i < j

\* the first alternative has no executor and was passed over, the second one
\* was called
C26_Witness ==
    /\ ResCalled
    /\ Len(FallbackSteps) = 2
    /\ FallbackSteps[1] \in Skips
    /\ res_trace[FallbackSteps[1]].tool \in tool_checker
    /\ FallbackSteps[2] \in AlternativeCalls

\* ---------------------------------------------------------------- C27
\* No attempt of the original tool reported success and no further one will
\* be made
PrimaryFailed ==
    /\ res_pc \notin {"idle", "attempting"}
    /\ \A i \in PrimaryCalls : ~ReportsSuccess(res_trace[i].outcome)

\* C27: with fallback disabled no alternative is looked at, and a call whose
\* original tool failed, for good or after its retries, returns a result
\* with success=false
C27_NoFallbackWhenDisabled ==
    (ResCalled /\ ~resilient.enable_fallback) =>
        /\ ~FallbackEntered
        /\ (PrimaryFailed /\ res_pc = "returned") =>
               /\ res_ret # {}
               /\ ~TheOne(res_ret).success
               /\ TheOne(res_ret).tool = res_call.tool_name

\* fallback is disabled, the tool has alternatives that could run, and the
\* call has returned the failure of the original tool
C27_Witness ==
    /\ ResCalled
    /\ ~resilient.enable_fallback
    /\ get_alternatives(res_call.tool_name) # << >>
    /\ \A t \in Range(get_alternatives(res_call.tool_name)) :
           t \in tool_checker /\ t \in res_call.tool_executors
    /\ PrimaryFailed
    /\ res_pc = "returned"
    /\ ~TheOne(res_ret).success

\* ---------------------------------------------------------------- C28
\* The call has returned and no executor it called reported success
EndedInFailure ==
    /\ res_pc = "returned"
    /\ PrimaryCalls # {}
    /\ \A i \in PrimaryCalls \cup AlternativeCalls :
           ~ReportsSuccess(res_trace[i].outcome)

\* The message and the suggestions of a failed attempt
MessageOf(o) == IF o.raised THEN o.result.message ELSE ErrorMsgOf(o)

SuggestionsOf(o) ==
    IF o.raised
    THEN << <<"Check tool installation">>, <<"Review error logs">> >>
    ELSE get_suggestions(CategoryOf(o), res_call.tool_name, tool_checker)

\* The result is the failure of the attempt at position i
CarriesFailureOf(ret, i) ==
    /\ ~ret.success
    /\ ret.error_type = CategoryOf(res_trace[i].outcome)
    /\ ret.error = MessageOf(res_trace[i].outcome)
    /\ ret.suggestions = SuggestionsOf(res_trace[i].outcome)
    /\ ret.timestamp = res_trace[i].at

\* C28 as stated: the failure result carries the category, message and
\* suggestions of the last failed attempt and a retry_count of 0 for a
\* non-retryable failure, of max_retries when the budget was exhausted
C28_FailureOfLastAttempt ==
    (ResCalled /\ EndedInFailure) =>
        LET ret == TheOne(res_ret)
            i == Last(PrimaryCalls)
        IN /\ CarriesFailureOf(ret, i)
           /\ ret.retry_count = IF FailedForGood(i) THEN 0
                                ELSE resilient.max_retries

\* C28 amended: the failure result carries the category, message and
\* suggestions of the last failed attempt and a retry_count equal to the
\* number of attempts made before that one: 0 when the first attempt failed
\* for good, max_retries when the budget was exhausted, and the number of
\* retries made so far when a later attempt failed for good
C28_FailureCountsEarlierAttempts ==
    (ResCalled /\ EndedInFailure) =>
        LET ret == TheOne(res_ret)
            i == Last(PrimaryCalls)
        IN /\ CarriesFailureOf(ret, i)
           /\ ret.retry_count = Cardinality(PrimaryCalls) - 1
           /\ (i = 1 /\ FailedForGood(i)) => ret.retry_count = 0
           /\ FailedForNow(i) => ret.retry_count = resilient.max_retries

\* a retryable failure, then a failure for good at the second attempt, and
\* the alternatives did not help: the result says retry_count = 1
C28_Witness ==
    /\ ResCalled
    /\ EndedInFailure
    /\ resilient.max_retries = 2
    /\ Cardinality(PrimaryCalls) = 2
    /\ FailedForGood(Last(PrimaryCalls))
    /\ AlternativeCalls # {}
    /\ TheOne(res_ret).retry_count = 1
    /\ TheOne(res_ret).error_type = "tool_not_found"

\* ---------------------------------------------------------------- C29
\* C29: no exception leaves the call, whatever the executors of the
\* original tool and of the alternatives raise, and the call comes to
\* return a value
C29_NeverRaises ==
    /\ [](res_pc # "raised")
    /\ <>(res_pc = "returned" /\ res_ret # {})

\* the original tool's executor raised at every attempt, an alternative's
\* executor raised too, and the call has returned a value
C29_Witness ==
    /\ ResCalled
    /\ res_pc = "returned"
    /\ res_ret # {}
    /\ PrimaryCalls # {}
    /\ \A i \in PrimaryCalls : res_trace[i].outcome.raised
    /\ \E i \in AlternativeCalls : res_trace[i].outcome.raised

\* ======================================================================
\* The calls of the cache when something goes wrong
\* ======================================================================
\* A value json.dumps has no encoding for (a set) and raises TypeError on
NotJson == "{80}"

Serializable(items) == \A i \in 1..Len(items) : items[i][2] # NotJson

\* `key = self._generate_cache_key(tool_name, target, params)` raises: the
\* json.dumps(params, sort_keys=True) in it does
KeyRaises(params) == ~Serializable(ParamsOrEmpty(params))

\* The arguments of the calls: params that can be serialized and params
\* that cannot
FaultSubjects ==
    { [tool_name |-> "httpx", target |-> "host", params |-> NoParams],
      [tool_name |-> "httpx", target |-> "host",
       params |-> Dict(<< <<"ports", NotJson>> >>)] }

\* Which command of a call the server fails at with a redis error: none, the
\* first or the second
Faults == {0, 1, 2}

\* The patterns clear_all is called with here
FaultPatterns ==
    { {}, { << "hexstrike", ":", "scan", ":", "httpx", ":", Star >> } }

\* ScanResultCache.get with its error paths: the key is computed before the
\* `try`, the command is sent inside it and `except Exception` falls through
\* to `return None`
get_except(self, tool_name, target, params, fault, t) ==
    IF KeyRaises(params)
    THEN [raised |-> TRUE, failed |-> FALSE, ret |-> {}, self |-> self]
    ELSE IF UsesRedis(self) /\ fault = 1
    THEN [raised |-> FALSE, failed |-> TRUE, ret |-> {}, self |-> Sent(self, "get")]
    ELSE LET r == get(self, tool_name, target, params, t) IN
         [raised |-> FALSE, failed |-> FALSE, ret |-> r.ret, self |-> r.self]

\* ScanResultCache.set with its error paths: `except Exception: return False`
set_except(self, tool_name, target, params, result, ttl, scan_type, fault, t) ==
    IF KeyRaises(params)
    THEN [raised |-> TRUE, failed |-> FALSE, ret |-> FALSE, seconds |-> 0, self |-> self]
    ELSE IF UsesRedis(self) /\ fault = 1
    THEN [raised |-> FALSE, failed |-> TRUE, ret |-> FALSE,
          seconds |-> ResolveTtl(tool_name, ttl, scan_type),
          self |-> Sent(self, "setex")]
    ELSE LET r == set(self, tool_name, target, params, result, ttl, scan_type, t) IN
         [raised |-> FALSE, failed |-> FALSE, ret |-> r.ret, seconds |-> r.seconds,
          self |-> r.self]

\* ScanResultCache.invalidate with its error paths: `except Exception:
\* return False`
invalidate_except(self, tool_name, target, params, fault, t) ==
    IF KeyRaises(params)
    THEN [raised |-> TRUE, failed |-> FALSE, ret |-> FALSE, self |-> self]
    ELSE IF UsesRedis(self) /\ fault = 1
    THEN [raised |-> FALSE, failed |-> TRUE, ret |-> FALSE, self |-> Sent(self, "delete")]
    ELSE LET r == invalidate(self, tool_name, target, params, t) IN
         [raised |-> FALSE, failed |-> FALSE, ret |-> r.ret, self |-> r.self]

\* ScanResultCache.clear_all with its error paths: `count` is still 0 when
\* KEYS or DEL fails, and `except Exception` falls through to `return count`
clear_all_except(self, pattern, fault, t) ==
    LET keys == RedisKeys(self.redis_db,
                          IF HasPattern(pattern) THEN TheOne(pattern) ELSE Namespace, t)
    IN  IF UsesRedis(self) /\ fault = 1
        THEN [raised |-> FALSE, failed |-> TRUE, ret |-> 0, self |-> Sent(self, "keys")]
        ELSE IF UsesRedis(self) /\ fault = 2 /\ keys # {}
        THEN [raised |-> FALSE, failed |-> TRUE, ret |-> 0,
              self |-> Sent(Sent(self, "keys"), "delete")]
        ELSE LET r == clear_all(self, pattern, t) IN
             [raised |-> FALSE, failed |-> FALSE, ret |-> r.ret, self |-> r.self]

\* The key of a call that got as far as computing it
KeyIfAny(r, c) == IF r.raised THEN {} ELSE { KeyOf(c.tool_name, c.target, c.params) }

CallGetExcept(c, fault) ==
    /\ Callable
    /\ LET r == get_except(Self, c.tool_name, c.target, c.params, fault, now) IN
         /\ Leaves(r.self)
         /\ last_call' = [op |-> "get", subject |-> c, at |-> now, ret |-> r.ret,
                          raised |-> r.raised, failed |-> r.failed]
    /\ UNCHANGED written

CallSetExcept(c, result, fault) ==
    /\ Callable
    /\ LET r == set_except(Self, c.tool_name, c.target, c.params, result, {},
                           "deep_scan", fault, now) IN
         /\ Leaves(r.self)
         /\ last_call' = [op |-> "set", subject |-> c, at |-> now, result |-> result,
                          ttl |-> {}, scan_type |-> "deep_scan", ret |-> r.ret,
                          raised |-> r.raised, failed |-> r.failed]
         /\ written' = IF r.ret
                       THEN Put(written, TheOne(KeyIfAny(r, c)),
                                [subject |-> c, result |-> result, at |-> now,
                                 ttl |-> r.seconds])
                       ELSE written

CallInvalidateExcept(c, fault) ==
    /\ Callable
    /\ LET r == invalidate_except(Self, c.tool_name, c.target, c.params, fault, now) IN
         /\ Leaves(r.self)
         /\ last_call' = [op |-> "invalidate", subject |-> c, at |-> now, ret |-> r.ret,
                          raised |-> r.raised, failed |-> r.failed]
         /\ written' = IF r.raised \/ r.failed THEN written
                       ELSE Del(written, TheOne(KeyIfAny(r, c)))

CallClearAllExcept(pattern, fault) ==
    /\ Callable
    /\ LET r == clear_all_except(Self, pattern, fault, now) IN
         /\ Leaves(r.self)
         /\ last_call' = [op |-> "clear_all", pattern |-> pattern, at |-> now,
                          ret |-> r.ret, raised |-> r.raised, failed |-> r.failed]
         /\ written' = [k \in DOMAIN written \cap Held(r.self) |-> written[k]]

GettingExcept == \E c \in FaultSubjects, fault \in Faults : CallGetExcept(c, fault)

SettingExcept ==
    \E c \in FaultSubjects, result \in Payloads, fault \in Faults :
        CallSetExcept(c, result, fault)

InvalidatingExcept ==
    \E c \in FaultSubjects, fault \in Faults : CallInvalidateExcept(c, fault)

ClearingExcept ==
    \E pattern \in FaultPatterns, fault \in Faults : CallClearAllExcept(pattern, fault)

\* The calls of a ScanResultCache with params that may not be serializable,
\* on a server that may fail at any command
FaultNext ==
    \/ ScanResultCache_init
    \/ GettingExcept
    \/ SettingExcept
    \/ InvalidatingExcept
    \/ ClearingExcept
    \/ Ticking

FaultSpec == CacheInit /\ [][FaultNext]_all_vars

\* ---------------------------------------------------------------- C21
\* A call of get, set, invalidate or clear_all is made
CacheCalled == ncalls' = ncalls + 1

\* The value a call reports an error with: absent for get, false for set and
\* invalidate, the count (nothing was removed: 0) for clear_all
ReportsError(call) ==
    CASE call.op = "get" -> call.ret = {}
      [] call.op \in {"set", "invalidate"} -> call.ret = FALSE
      [] call.op = "clear_all" -> call.ret = 0

\* A call met a backend error or params that cannot be serialized
MetError(call) ==
    \/ call.failed
    \/ call.op # "clear_all" /\ KeyRaises(call.subject.params)

\* C21: no call of get, set, invalidate or clear_all lets an exception
\* escape; a call that meets a backend error or params that cannot be
\* serialized reports it as a value and leaves the stored entries as they
\* were
C21_ErrorsAreValues ==
    [][CacheCalled =>
          /\ ~last_call'.raised
          /\ MetError(last_call') =>
                 /\ ReportsError(last_call')
                 /\ memory_cache' = memory_cache
                 /\ redis_db' = redis_db
      ]_all_vars

\* =====================================================================
\* The progress callback of execute_parallel
\* =====================================================================
\* the calls of the progress callback that raised
RaisedCalls == { i \in 1..Len(calls) : calls[i].raised }

\* C34: if the progress callback raises while reporting a task, the task's
\* entry in the returned map is still the ScanResult produced by its
\* executor, and the remaining tasks are still collected.
C34_CallbackRaiseKeepsResult ==
    (pc = "done" /\ DistinctKinds) =>
        /\ \A i \in RaisedCalls :
              results[KindOf(calls[i].task)] = future[calls[i].task]
        /\ Range(yielded) = Dispatched

\* C35: the completed_count values passed to the successive progress
\* callbacks of one call are 1, 2, 3, ..., never exceed total_count, and the
\* last call of a batch reports completed_count = total_count, also for a
\* batch with a task that has no executor or a callback that raised earlier.
C35_CountsByOne ==
    /\ \A i \in 1..Len(calls) :
          /\ calls[i].completed = i
          /\ calls[i].completed <= calls[i].total
    /\ (pc = "done" /\ calls # << >>) =>
          calls[Len(calls)].completed = calls[Len(calls)].total

\* =====================================================================
\* The suggestions of a failed result
\* =====================================================================
\* What a call for the same tool carries when its first attempt ends as o
\* and it returns that failure
FailureOf(o) ==
    create_failure_result(
        res_call.tool_name, res_call.target,
        { AttemptError(o, res_call.tool_name, res_call.target, 0,
                       tool_checker, now) })

\* The outcomes of an executor that make an attempt fail
FailedOutcomes == { o \in ResOutcomes : ~ReportsSuccess(o) }

\* C31: any two failed results for the same probe kind that carry
\* the same category carry the same suggestions, whether the failure was
\* returned by the executor or raised as an exception
C31_SuggestionsByCategory ==
    (ResCalled /\ EndedInFailure) =>
        \A o \in FailedOutcomes :
            FailureOf(o).error_type = TheOne(res_ret).error_type =>
                FailureOf(o).suggestions = TheOne(res_ret).suggestions

\* =====================================================================
\* The executor the smart scan builds per tool
\* (api/routes/intelligence_enhanced.py)
\* =====================================================================
\* What original_executor(target, params) hands back when it returns
Returned(o) == IF o.isdict THEN ResultDict(o) ELSE [text |-> o.value]

\* `if enable_cache and not force_refresh`
ThroughCache(enable_cache, force_refresh) == enable_cache /\ ~force_refresh

\* cached_wrapper(target, params) of create_cached_executor(tool_name) at
\* time t, with o what original_executor does if it is called; the fields
\* are those of execute_with_cache
cached_wrapper(self, tool_name, target, params, o, enable_cache, force_refresh, objective, t) ==
    IF ThroughCache(enable_cache, force_refresh)
    THEN execute_with_cache(self, tool_name, target, params, o, force_refresh,
                            objective, t)
    ELSE [ret |-> IF o.raised THEN {} ELSE { Returned(o) },
          raised |-> o.raised, invoked |-> 1, stored |-> {}, self |-> self]

\* The scan objectives a request may name
Objectives == {"deep_scan"}

CallCachedWrapper(c, o, enable_cache, force_refresh, objective) ==
    /\ Callable
    /\ LET r == cached_wrapper(Self, c.tool_name, c.target, c.params, o,
                               enable_cache, force_refresh, objective, now) IN
         /\ Leaves(r.self)
         /\ last_call' = [op |-> "cached_wrapper", subject |-> c, at |-> now,
                          enable_cache |-> enable_cache,
                          force_refresh |-> force_refresh, scan_type |-> objective,
                          outcome |-> IF r.invoked = 0 THEN {} ELSE {o},
                          invoked |-> r.invoked, raised |-> r.raised, ret |-> r.ret]
         /\ written' = IF r.stored # {}
                       THEN Put(written, KeyOf(c.tool_name, c.target, c.params),
                                [subject |-> c, result |-> ResultDict(o), at |-> now,
                                 ttl |-> TheOne(r.stored)])
                       ELSE written

Wrapping ==
    \E c \in CacheSubjects, o \in CacheOutcomes, enable_cache \in BOOLEAN,
       force_refresh \in BOOLEAN, objective \in Objectives :
        CallCachedWrapper(c, o, enable_cache, force_refresh, objective)

\* The runs of the executors of one smart scan after another over the cache
FacadeNext ==
    \/ ScanResultCache_init
    \/ Wrapping
    \/ Ticking

FacadeSpec == CacheInit /\ [][FacadeNext]_all_vars

\* what a run without force_refresh would find under the key of the call
\* right after the step
ServedNext ==
    get([use_redis |-> use_redis', redis_client |-> redis_client',
         memory_cache |-> memory_cache', redis_db |-> redis_db',
         redis_commands |-> redis_commands'],
        last_call'.subject.tool_name, last_call'.subject.target,
        last_call'.subject.params, now').ret

\* C33: a run of cached_wrapper with caching enabled and force_refresh set
\* invokes the raw executor and, when it reports success, stores the fresh
\* result in the cache under the task's key, so that a following run without
\* force_refresh is served that result from the cache.
C33_ForcedRunRefreshesCache ==
    [][(Stepped("cached_wrapper") /\ last_call'.enable_cache
            /\ last_call'.force_refresh) =>
        /\ last_call'.invoked = 1
        /\ ExecutorSucceeded =>
             /\ ServedNext # {}
             /\ TheOne(ServedNext).result = ResultDict(TheOne(last_call'.outcome))
             /\ TheOne(ServedNext).cached_at = now
      ]_all_vars

\* =====================================================================
\* cleanup_expired
\* =====================================================================
\* ScanResultCache.cleanup_expired at time t
cleanup_expired(self, t) ==
    IF self.use_redis
    THEN [ret |-> 0, self |-> self]
    ELSE LET keys_to_delete ==
                 { k \in DOMAIN self.memory_cache :
                      t >= self.memory_cache[k].expires_at }
         IN  [ret |-> Cardinality(keys_to_delete),
              self |-> [self EXCEPT !.memory_cache =
                          [k \in DOMAIN self.memory_cache \ keys_to_delete |->
                              self.memory_cache[k]]]]

CallCleanupExpired ==
    /\ Callable
    /\ LET r == cleanup_expired(Self, now) IN
         /\ Leaves(r.self)
         /\ last_call' = [op |-> "cleanup_expired", at |-> now, ret |-> r.ret]
         /\ written' = [k \in DOMAIN written \cap Held(r.self) |-> written[k]]

\* The arguments a ScanResultCache is built with, the Redis backend asked
\* for without a client among them: ScanResultCache(), ScanResultCache(True,
\* None)
CleanupConfigs ==
    CacheConfigs \cup
        { [use_redis |-> TRUE, redis_client |-> None, reachable |-> FALSE] }

CleanupInit ==
    /\ NoScan
    /\ NoResilience
    /\ NoThreads
    /\ NoSmart
    /\ \E c \in CleanupConfigs :
         /\ use_redis = c.use_redis
         /\ redis_client = c.redis_client
         /\ redis_reachable = c.reachable
    /\ constructed = FALSE
    /\ memory_cache = EmptyDict
    /\ redis_db = EmptyDict
    /\ redis_commands = {}
    /\ now = 0
    /\ ticks = 0
    /\ ncalls = 0
    /\ last_call = [op |-> None]
    /\ written = EmptyDict

\* The calls that fill a cache and clean it up, as time passes
CleanupNext ==
    \/ ScanResultCache_init
    \/ Setting
    \/ CallCleanupExpired
    \/ Ticking

CleanupSpec == CleanupInit /\ [][CleanupNext]_all_vars

\* the entries of the process-local map whose expires_at has been reached
Expired == { k \in DOMAIN memory_cache : now >= memory_cache[k].expires_at }

\* C37: whenever a cache instance stores its entries in the process-local
\* map, also one created with the Redis backend asked for and no client,
\* cleanup_expired removes every entry whose expires_at has been reached,
\* returns the number removed, and leaves every unexpired entry unchanged.
C37_CleanupRemovesExpired ==
    [][(Stepped("cleanup_expired") /\ IsLocal) =>
        /\ DOMAIN memory_cache' = DOMAIN memory_cache \ Expired
        /\ \A k \in DOMAIN memory_cache' : memory_cache'[k] = memory_cache[k]
        /\ last_call'.ret = Cardinality(Expired)
      ]_all_vars

\* =====================================================================
\* clear_all on a server the cache shares with others
\* =====================================================================
\* Keys that other users of the same Redis server keep there
ForeignKeys == { << "session", ":", "42" >> }

\* Another user of the server stores a key of its own: SETEX key 86400 v
OtherUserSetex(key) ==
    /\ redis_reachable
    /\ key \notin DOMAIN redis_db
    /\ redis_db' = RedisSetex(redis_db, key, 86400, [json |-> "token"], now)
    /\ UNCHANGED << constructed, use_redis, redis_client, redis_reachable,
                    memory_cache, redis_commands, now, ticks, ncalls, last_call,
                    written >>
    /\ UNCHANGED << vars, res_vars, ext_vars >>

\* The pattern arguments of clear_all that a caller of the cache-clear
\* route can send: none, patterns inside the namespace, and a bare "*"
RoutePatterns == KeyPatterns \cup { { << Star >> } }

\* The calls of a cache on a server that others use too
SharedNext ==
    \/ ScanResultCache_init
    \/ \E key \in ForeignKeys : OtherUserSetex(key)
    \/ \E c \in CacheSubjects, result \in Payloads : CallSet(c, result, {}, "default")
    \/ \E pattern \in RoutePatterns : CallClearAll(pattern)

SharedSpec == CacheInit /\ [][SharedNext]_all_vars

\* C38: clear_all on the Redis backend only ever deletes keys inside the
\* namespace 'hexstrike:scan:', for every pattern argument a caller can pass
\* (a bare '*' among them): keys of other users of the same server are never
\* deleted.
C38_ClearStaysInNamespace ==
    [][(Stepped("clear_all") /\ ~IsLocal) =>
        \A k \in DOMAIN redis_db \ DOMAIN redis_db' :
            GlobMatch(Namespace, k)
      ]_all_vars

\* =====================================================================
\* Threads that call one cache at the same time
\* =====================================================================
\* The cache has no lock: a call is a sequence of steps, each one access to
\* self.memory_cache (one dict operation) or one command to the server, and
\* the steps of two threads interleave. get on the in-memory backend reads
\* the entry (GetRead) and deletes an expired one in a later step
\* (GetPurge); set writes in one step; execute_with_cache is get, the
\* executor call and set.
Threads == {1, 2}

\* What the two threads call, for the same tool, target and params
ThreadOps ==
    { << "execute_with_cache", "execute_with_cache" >>,
      << "get", "set" >> }

\* What executor_func can do when a thread calls it: as before, and a
\* second result that reports success
ThreadOutcomes ==
    { o \in CacheOutcomes : o.isdict \/ o.raised } \cup
        { [raised |-> FALSE, isdict |-> TRUE, success |-> TRUE,
           timed_out |-> FALSE, value |-> "found more"] }

\* The call the two threads make, and the calls that fill the cache before
ThreadSubjects == { c \in CacheSubjects : c.tool_name = "httpx" /\ ~c.params.given }

FillSubjects == { c \in CacheSubjects : ~c.params.given }

\* A thread at the start of its call
ThreadAt(op, c) ==
    [op |-> op, subject |-> c,
     pc |-> IF op = "set" THEN "set_write" ELSE "get_read",
     entry |-> {}, outcome |-> {}, ret |-> {}, raised |-> FALSE]

ThreadKey(th) == KeyOf(th.subject.tool_name, th.subject.target, th.subject.params)

\* The shared state a step of a thread leaves
ThreadLeaves(self) ==
    /\ memory_cache' = self.memory_cache
    /\ redis_db' = self.redis_db
    /\ redis_commands' = self.redis_commands
    /\ UNCHANGED << constructed, use_redis, redis_client, redis_reachable, now,
                    ticks, ncalls >>
    /\ UNCHANGED << vars, res_vars, smart >>

\* The two threads enter their calls
Spawn(ops, c) ==
    /\ constructed
    /\ threads = << >>
    /\ threads' = [i \in Threads |-> ThreadAt(ops[i], c)]
    /\ last_call' = [op |-> "spawn", subject |-> c]
    /\ UNCHANGED << constructed, use_redis, redis_client, redis_reachable,
                    memory_cache, redis_db, redis_commands, now, ticks, ncalls,
                    written >>
    /\ UNCHANGED << vars, res_vars, smart >>

\* get has returned `cached` (None: the empty set) to thread th: the call
\* get is over, execute_with_cache returns the hit or goes on to the executor
AfterGet(th, cached) ==
    IF th.op = "get" THEN [th EXCEPT !.pc = "done", !.ret = cached]
    ELSE IF cached # {}
         THEN [th EXCEPT !.pc = "done",
                         !.ret = { Annotated(TheOne(cached).result,
                                             HitAnnotation(TheOne(cached), now)) }]
         ELSE [th EXCEPT !.pc = "exec"]

\* get: the command GET on the server, or `entry = self.memory_cache.get(key)`
\* and the test of its expires_at
GetRead(i) ==
    /\ i \in DOMAIN threads
    /\ threads[i].pc = "get_read"
    /\ LET th == threads[i]
           key == ThreadKey(th)
       IN  IF UsesRedis(Self)
           THEN LET r == get(Self, th.subject.tool_name, th.subject.target,
                             th.subject.params, now) IN
                /\ threads' = [threads EXCEPT ![i] = AfterGet(th, r.ret)]
                /\ ThreadLeaves(r.self)
           ELSE /\ threads' =
                     [threads EXCEPT ![i] =
                        IF key \notin DOMAIN memory_cache THEN AfterGet(th, {})
                        ELSE IF now < memory_cache[key].expires_at
                             THEN AfterGet(th, { memory_cache[key].data })
                             ELSE [th EXCEPT !.pc = "get_purge",
                                             !.entry = { memory_cache[key] }]]
                /\ ThreadLeaves(Self)
    /\ last_call' = [op |-> "get_read", thread |-> i]
    /\ UNCHANGED written

\* variant of PurgeCaught: the KeyError leaves get
PurgeCaught_Never == FALSE

\* get: `except Exception` around `del self.memory_cache[key]`
PurgeCaught == TRUE

\* get: `del self.memory_cache[key]` for the entry found expired; a key that
\* is gone by now raises KeyError
GetPurge(i) ==
    /\ i \in DOMAIN threads
    /\ threads[i].pc = "get_purge"
    /\ LET th == threads[i]
           key == ThreadKey(th)
       IN  IF key \in DOMAIN memory_cache
           THEN /\ threads' = [threads EXCEPT ![i] = AfterGet(th, {})]
                /\ ThreadLeaves([Self EXCEPT !.memory_cache = Del(memory_cache, key)])
                /\ written' = Del(written, key)
           ELSE /\ threads' =
                     [threads EXCEPT ![i] =
                        IF PurgeCaught THEN AfterGet(th, {})
                        ELSE [th EXCEPT !.pc = "done", !.raised = TRUE]]
                /\ ThreadLeaves(Self)
                /\ UNCHANGED written
    /\ last_call' = [op |-> "get_purge", thread |-> i]

\* execute_with_cache: `result = executor_func(target, params)` and the
\* test of the result; a result that is not stored is returned (a result
\* that is not a dict makes `{**result, ...}` raise)
ThreadExec(i, o) ==
    /\ i \in DOMAIN threads
    /\ threads[i].pc = "exec"
    /\ threads' =
         [threads EXCEPT ![i] =
            IF o.raised THEN [@ EXCEPT !.pc = "done", !.outcome = {o}, !.raised = TRUE]
            ELSE IF Cacheable(o) THEN [@ EXCEPT !.pc = "set_write", !.outcome = {o}]
            ELSE IF o.isdict
                 THEN [@ EXCEPT !.pc = "done", !.outcome = {o},
                          !.ret = { Annotated(ResultDict(o), [from_cache |-> FALSE]) }]
                 ELSE [@ EXCEPT !.pc = "done", !.outcome = {o}, !.raised = TRUE]]
    /\ last_call' = [op |-> "exec", thread |-> i]
    /\ ThreadLeaves(Self)
    /\ UNCHANGED written

\* set: the command SETEX on the server, or `self.memory_cache[key] = entry`;
\* execute_with_cache stores the executor's result; no ttl is given
SetWrite(i, result) ==
    /\ i \in DOMAIN threads
    /\ threads[i].pc = "set_write"
    /\ LET th == threads[i]
           payload == IF th.op = "set" THEN result ELSE ResultDict(TheOne(th.outcome))
           r == set(Self, th.subject.tool_name, th.subject.target,
                    th.subject.params, payload, {}, "default", now)
       IN  /\ threads' =
                [threads EXCEPT ![i] =
                   [th EXCEPT !.pc = "done",
                              !.ret = IF th.op = "set" THEN { [value |-> r.ret] }
                                      ELSE { Annotated(payload, [from_cache |-> FALSE]) }]]
           /\ ThreadLeaves(r.self)
           /\ written' = Put(written, ThreadKey(th),
                             [subject |-> th.subject, result |-> payload,
                              at |-> now, ttl |-> r.seconds])
           /\ last_call' = [op |-> "set_write", thread |-> i]

\* Before the threads start the cache is filled by calls one after another
Filling ==
    /\ threads = << >>
    /\ \E c \in FillSubjects, result \in Payloads :
          CallSet(c, result, {}, "default")

Spawning == \E ops \in ThreadOps, c \in ThreadSubjects : Spawn(ops, c)

ThreadStep(i) ==
    \/ GetRead(i)
    \/ GetPurge(i)
    \/ \E o \in ThreadOutcomes : ThreadExec(i, o)
    \/ \E result \in Payloads : SetWrite(i, result)

ThreadNext ==
    \/ ScanResultCache_init
    \/ Filling
    \/ Ticking
    \/ Spawning
    \/ \E i \in Threads : ThreadStep(i)

ThreadSpec == CacheInit /\ [][ThreadNext]_all_vars

\* ---------------------------------------------------------------- C36
\* thread i takes the purge step of its get
Purges(i) ==
    /\ i \in DOMAIN threads
    /\ threads[i].pc = "get_purge"
    /\ threads'[i].pc # "get_purge"

\* C36: a get that observes an expired process-local entry removes only
\* that expired entry: under any interleaving with a set of another thread
\* for the same arguments, an unexpired entry written by that set is never
\* deleted by the purge step of the get.
C36_PurgeSparesFreshEntry ==
    [][\A i \in Threads :
          Purges(i) =>
              LET key == ThreadKey(threads[i]) IN
              (key \in DOMAIN memory_cache /\ now < memory_cache[key].expires_at) =>
                  /\ key \in DOMAIN memory_cache'
                  /\ memory_cache'[key] = memory_cache[key]
      ]_all_vars

\* ---------------------------------------------------------------- C32
\* both threads called execute_with_cache and have left it
RaceOver ==
    /\ threads # << >>
    /\ \A i \in Threads :
          threads[i].op = "execute_with_cache" /\ threads[i].pc = "done"

\* thread i was served from the cache
Hit(i) == threads[i].ret # {} /\ TheOne(threads[i].ret).from_cache

\* the executor thread i called, if it called one, reported success, so
\* that the thread went on to set
WentOnToSet(i) ==
    threads[i].outcome = {} \/ Cacheable(TheOne(threads[i].outcome))

\* a step of a thread leaves the entries under other keys as they are
OtherEntriesKept ==
    \A i \in Threads :
        (i \in DOMAIN threads /\ threads'[i] # threads[i]) =>
            \A k \in DOMAIN Backing \ { ThreadKey(threads[i]) } :
                k \in DOMAIN Backing' /\ Backing'[k] = Backing[k]

\* the entry is what set builds: the payload with its metadata, kept for
\* the ttl from the time it was written
WellFormed(entry, key) ==
    IF IsLocal
    THEN /\ entry.key = key
         /\ DOMAIN entry.data = {"result", "tool_name", "target", "cached_at", "ttl"}
         /\ entry.expires_at = entry.created_at + entry.data.ttl
         /\ entry.data.cached_at = entry.created_at
    ELSE /\ DOMAIN JsonLoads(entry.value) =
                {"result", "tool_name", "target", "cached_at", "ttl"}
         /\ entry.expires_at = JsonLoads(entry.value).cached_at + JsonLoads(entry.value).ttl

DictUpdate_KeepFirst(d, other) ==
    [k \in DOMAIN d \cup DOMAIN other |-> IF k \in DOMAIN d THEN d[k] ELSE other[k]]

\* all_results.update(results)

DictUpdate(d, other) ==
    [k \in DOMAIN d \cup DOMAIN other |-> IF k \in DOMAIN other THEN other[k] ELSE d[k]]

\* `task.tool_name in results and not results[task.tool_name].success and
\*  not results[task.tool_name].timed_out` of the failed_tasks comprehension
IsFailedTask(task, res) ==
    /\ task.tool_name \in DOMAIN res
    /\ ~res[task.tool_name].success
    /\ ~res[task.tool_name].timed_out

\* the positions of remaining_tasks that failed_tasks keeps, in their order
FailedPositions(remaining_tasks, res) ==
    SelectSeq([i \in 1..Len(remaining_tasks) |-> i],
              LAMBDA i : IsFailedTask(remaining_tasks[i], res))

\* the batches and the lists of groups the calls are made with
task_httpx == create_task_from_selection("httpx", "host", 1)

task_nmap == create_task_from_selection("nmap", "host", 5)

task_nuclei == create_task_from_selection("nuclei", "host", 1)

RetryBatches ==
    { << >>, << task_httpx >>, << task_httpx, task_nmap >>, << task_nuclei, task_nmap >> }

TaskGroups ==
    { << >>,
      << << task_httpx >>, << task_nmap >> >>,
      << << task_httpx, task_nuclei >>, << >>, << task_httpx >> >>,
      << << task_nmap >>, << task_nmap, task_httpx >> >> }

\* the max_retries arguments tried, up to the default
RetryLimits == {0, 1, 2}

\* the widths of the pool tried
SmartWidths == {1, 2}

\* What the outer loops tell apart in an executor's return: a success, a
\* failure and a failure flagged as a timeout
SmartOutcomes == { o \in ExecOutcomes : o.isdict }

\* the locals of a call that has just been entered
SmartCall(op, arg, max_retries, width, callback) ==
    [op              |-> op,
     pc              |-> "loop",
     arg             |-> arg,
     max_retries     |-> max_retries,
     max_workers     |-> width,
     has_callback    |-> callback,
     remaining_tasks |-> IF op = "execute_with_retry" THEN arg ELSE << >>,
     origin          |-> IF op = "execute_with_retry"
                         THEN [i \in 1..Len(arg) |-> i] ELSE << >>,
     retry_count     |-> 0,
     group_idx       |-> 0,
     slept           |-> 0,
     all_results     |-> EmptyDict,
     rounds          |-> << >>]

SmartInit ==
    /\ NoScan
    /\ NoCache
    /\ NoResilience
    /\ NoThreads
    /\ \/ \E b \in RetryBatches, m \in RetryLimits, w \in SmartWidths, cb \in BOOLEAN :
            smart = SmartCall("execute_with_retry", b, m, w, cb)
       \/ \E g \in TaskGroups, w \in SmartWidths, cb \in BOOLEAN :
            smart = SmartCall("execute_with_dependencies", g, 0, w, cb)

\* self.execute_parallel(batch, tool_executors, progress_callback) is
\* entered: the scheduler starts on the batch
CallExecuteParallel(batch) ==
    /\ pc = "done"
    /\ tasks' = batch
    /\ max_workers' = smart.max_workers
    /\ has_callback' = smart.has_callback
    /\ pc' = "start"
    /\ sorted_tasks' = << >>
    /\ cursor' = 1
    /\ results' = EmptyDict
    /\ completed_tasks' = 0
    /\ future_to_task' = << >>
    /\ work_queue' = work_queue
    /\ num_threads' = 0
    /\ running' = running
    /\ invocations' = [t \in 1..Len(batch) |-> 0]
    /\ overdue' = {}
    /\ outcome' = EmptyDict
    /\ future' = EmptyDict
    /\ completion' = << >>
    /\ finished_first' = {}
    /\ finished_futures' = << >>
    /\ yielded' = << >>
    /\ calls' = << >>

\* what a round that has returned did
RoundRecord ==
    [tasks       |-> tasks,
     origin      |-> smart.origin,
     invocations |-> invocations,
     outcome     |-> outcome,
     results     |-> results,
     cb_raised   |-> \E i \in 1..Len(calls) : calls[i].raised,
     unresolved  |-> running \cup Range(work_queue)]

\* `while remaining_tasks and retry_count <= max_retries:` holds and the
\* round's execute_parallel is called
RetryRound ==
    /\ smart.op = "execute_with_retry"
    /\ smart.pc = "loop"
    /\ smart.remaining_tasks # << >>
    /\ smart.retry_count <= smart.max_retries
    /\ CallExecuteParallel(smart.remaining_tasks)
    /\ smart' = [smart EXCEPT !.pc = "running"]
    /\ UNCHANGED << cache_vars, res_vars, threads >>

\* the round's execute_parallel has returned: all_results.update(results),
\* failed_tasks, and either `break` or the next turn after time.sleep(2)
RetryRoundEnd ==
    /\ smart.op = "execute_with_retry"
    /\ smart.pc = "running"
    /\ pc = "done"
    /\ LET failed == FailedPositions(smart.remaining_tasks, results)
           merged == [smart EXCEPT !.all_results = DictUpdate(@, results),
                                   !.rounds = Append(@, RoundRecord)]
       IN  smart' =
             IF failed = << >> \/ smart.retry_count >= smart.max_retries
             THEN [merged EXCEPT !.pc = "returned"]
             ELSE [merged EXCEPT
                     !.remaining_tasks = [i \in 1..Len(failed) |->
                                             smart.remaining_tasks[failed[i]]],
                     !.origin = failed,
                     !.retry_count = @ + 1,
                     !.slept = @ + 2,
                     !.pc = "loop"]
    /\ UNCHANGED << vars, cache_vars, res_vars, threads >>

\* the `while` condition fails: return all_results
RetryReturn ==
    /\ smart.op = "execute_with_retry"
    /\ smart.pc = "loop"
    /\ ~(smart.remaining_tasks # << >> /\ smart.retry_count <= smart.max_retries)
    /\ smart' = [smart EXCEPT !.pc = "returned"]
    /\ UNCHANGED << vars, cache_vars, res_vars, threads >>

\* `for group_idx, task_group in enumerate(task_groups, 1)`: the next
\* group's execute_parallel is called
GroupRound ==
    /\ smart.op = "execute_with_dependencies"
    /\ smart.pc = "loop"
    /\ smart.group_idx < Len(smart.arg)
    /\ CallExecuteParallel(smart.arg[smart.group_idx + 1])
    /\ smart' = [smart EXCEPT !.pc = "running", !.group_idx = @ + 1]
    /\ UNCHANGED << cache_vars, res_vars, threads >>

\* the group's execute_parallel has returned:
\* all_results.update(group_results); critical_failures is only logged
GroupRoundEnd ==
    /\ smart.op = "execute_with_dependencies"
    /\ smart.pc = "running"
    /\ pc = "done"
    /\ smart' = [smart EXCEPT !.all_results = DictUpdate(@, results),
                              !.rounds = Append(@, RoundRecord),
                              !.pc = "loop"]
    /\ UNCHANGED << vars, cache_vars, res_vars, threads >>

\* the groups are used up: return all_results
GroupReturn ==
    /\ smart.op = "execute_with_dependencies"
    /\ smart.pc = "loop"
    /\ smart.group_idx >= Len(smart.arg)
    /\ smart' = [smart EXCEPT !.pc = "returned"]
    /\ UNCHANGED << vars, cache_vars, res_vars, threads >>

SmartReturning == \E t \in Positions : \E o \in SmartOutcomes : ExecReturn(t, o)

SmartNext ==
    \/ RetryRound
    \/ RetryRoundEnd
    \/ RetryReturn
    \/ GroupRound
    \/ GroupRoundEnd
    \/ GroupReturn
    \/ ReturnEmpty /\ UNCHANGED << cache_vars, res_vars, ext_vars >>
    \/ SortTasks /\ UNCHANGED << cache_vars, res_vars, ext_vars >>
    \/ SubmitNoExecutor /\ UNCHANGED << cache_vars, res_vars, ext_vars >>
    \/ SubmitTask /\ UNCHANGED << cache_vars, res_vars, ext_vars >>
    \/ StartCollect /\ UNCHANGED << cache_vars, res_vars, ext_vars >>
    \/ Collecting /\ UNCHANGED << cache_vars, res_vars, ext_vars >>
    \/ Return /\ UNCHANGED << cache_vars, res_vars, ext_vars >>
    \/ WorkerTake /\ UNCHANGED << cache_vars, res_vars, ext_vars >>
    \/ SmartReturning /\ UNCHANGED << cache_vars, res_vars, ext_vars >>

SmartSpec == SmartInit /\ [][SmartNext]_all_vars

\* the ScanResult execute_single_task made of what the executor of the
\* task at position i did in round r
OwnResult(r, i) == execute_single_task(r.tasks[i], r.outcome[i])

\* the executor of the task at position i of round r was called
Executed(r, i) == r.invocations[i] > 0

\* the last round whose map has an entry for kind k
LatestRoundWith(k) ==
    CHOOSE n \in 1..Len(smart.rounds) :
        /\ k \in DOMAIN smart.rounds[n].results
        /\ \A m \in (n + 1)..Len(smart.rounds) : k \notin DOMAIN smart.rounds[m].results

\* the map holds, for each kind that has an entry in some round's map, the
\* entry of the latest such round, and no other key
LatestResultsKept ==
    /\ DOMAIN smart.all_results =
          UNION { DOMAIN smart.rounds[n].results : n \in 1..Len(smart.rounds) }
    /\ \A k \in DOMAIN smart.all_results :
          smart.all_results[k] = smart.rounds[LatestRoundWith(k)].results[k]

\* C39: execute_with_retry runs at most max_retries + 1 rounds of
\* execute_parallel; a task is executed again in the next round only if its
\* result in the round before is a failure that is not a timeout, so a task
\* whose executor succeeded or timed out is never executed again; and the
\* returned map holds, for each probe kind, the result of the latest round
\* in which it ran.
C39_RetryOnlyFailures ==
    smart.op = "execute_with_retry" =>
        /\ Len(smart.rounds) <= smart.max_retries + 1
        /\ \A n \in 2..Len(smart.rounds) :
              \A i \in 1..Len(smart.rounds[n].tasks) :
                  Executed(smart.rounds[n], i) =>
                      LET prev == smart.rounds[n - 1]
                          j    == smart.rounds[n].origin[i]
                      IN  /\ IsFailedTask(prev.tasks[j], prev.results)
                          /\ Executed(prev, j)
                          /\ ~OwnResult(prev, j).success
                          /\ ~OwnResult(prev, j).timed_out
        /\ smart.pc = "returned" => LatestResultsKept

\* every task of round r that went to the pool has resolved: its executor
\* has come back, and none is running or waiting in the pool
Resolved(r) ==
    /\ r.unresolved = {}
    /\ \A i \in 1..Len(r.tasks) :
          HasExecutor(r.tasks[i].tool_name) =>
              /\ i \in DOMAIN r.outcome
              /\ r.invocations[i] = 1
              /\ r.tasks[i].tool_name \in DOMAIN r.results

\* a worker thread calls an executor in this step
ExecutorStarts == Cardinality(running') > Cardinality(running)

\* the groups before the current one have run, each to its end
EarlierGroupsDone ==
    /\ smart.pc = "running"
    /\ tasks = smart.arg[smart.group_idx]
    /\ Len(smart.rounds) = smart.group_idx - 1
    /\ \A n \in 1..Len(smart.rounds) :
          /\ smart.rounds[n].tasks = smart.arg[n]
          /\ Resolved(smart.rounds[n])

\* between two groups and after the last one no executor runs or waits, and
\* the groups so far have all run; at the return every group has run,
\* whatever failed in the groups before it
GroupsInSequence ==
    /\ Len(smart.rounds) <= smart.group_idx
    /\ \A n \in 1..Len(smart.rounds) :
          /\ smart.rounds[n].tasks = smart.arg[n]
          /\ Resolved(smart.rounds[n])
    /\ smart.pc # "running" =>
          /\ Len(smart.rounds) = smart.group_idx
          /\ running = {}
          /\ work_queue = << >>
    /\ smart.pc = "returned" =>
          /\ Len(smart.rounds) = Len(smart.arg)
          /\ LatestResultsKept

\* C40: execute_with_dependencies runs the task groups strictly one after
\* another: no executor of a task of group i+1 starts before every task of
\* group i has resolved, failed tasks of group i do not keep group i+1 from
\* running, and the returned map is the union of the groups' results (on a
\* kind that several groups have, the entry of the last of them).
C40_GroupsInSequence ==
    /\ [](smart.op = "execute_with_dependencies" => GroupsInSequence)
    /\ [][(smart.op = "execute_with_dependencies" /\ ExecutorStarts)
              => EarlierGroupsDone]_all_vars

\* two groups have run and the call has returned; the task of the first
\* group failed, the second group ran the same kind again with success
C40_Witness ==
    /\ smart.op = "execute_with_dependencies"
    /\ smart.pc = "returned"
    /\ Len(smart.rounds) = 2
    /\ "nmap" \in DOMAIN smart.rounds[1].results
    /\ ~smart.rounds[1].results["nmap"].success
    /\ smart.rounds[2].invocations = << 1, 1 >>
    /\ smart.rounds[2].results["nmap"].success
====
